---- MODULE Spec2Model ----
(***************************************************************************)
(* OzZoo (src/ozzoo.py): the zoo engine (Animal, Enclosure, Visitor,       *)
(* FinanceManager, AnimalFactory, HealthObserver, Zoo) and the host        *)
(* handlers of OzZooApp that call into it.                                 *)
(*                                                                         *)
(* Units.  The program computes in floating point; the model computes in   *)
(* fixed point:                                                            *)
(*   health, hunger, happiness, social_needs, cleanliness, satisfaction    *)
(*       in tenths (100.0 is 1000);                                        *)
(*   money in cents (2000.00 is 200000);                                   *)
(*   age in days (the program adds 1/365 year per tick);                   *)
(*   random.random() in hundredths for the event draw, thousandths for the *)
(*       breeding draw.                                                    *)
(* The random draws are chosen so that every product and quotient of the   *)
(* animal arithmetic is exact in these units; the visitor's satisfaction   *)
(* and spend are truncated (\div).                                         *)
(*                                                                         *)
(* Every method is an operator from a state record s to a state record.    *)
(* s.raised is the exception in flight ("" when none) and s.ret the value  *)
(* the method returned.                                                    *)
(***************************************************************************)
EXTENDS Integers, Sequences, FiniteSets, TLC

VARIABLES
    animals,            \* the Animal objects in use, by Animal.id
    _id_counter,        \* Animal._id_counter
    enclosures,         \* Zoo.enclosures, each with its list of animal ids
    food_inventory,     \* Zoo.food_inventory
    medicine_inventory, \* Zoo.medicine_inventory
    balance,            \* FinanceManager.balance
    income_history,     \* FinanceManager.income_history
    expense_history,    \* FinanceManager.expense_history
    subscriptions,      \* HealthObserver.subscriptions
    day,                \* Zoo.day
    event_log,          \* Zoo.event_log
    alerts,             \* the [ALERT] lines HealthObserver.notify printed
    running,            \* OzZooApp.running
    auto_ticks,         \* pending after(tick_interval_ms, auto_tick) callbacks
    msg_queue,          \* OzZooApp.msg_queue
    messagebox,         \* the last messagebox the host showed
    steps               \* host calls so far that changed the zoo (bounds the run)
                        \* MaxSteps + 1 once a call was rejected

vars == <<animals, _id_counter, enclosures, food_inventory, medicine_inventory,
          balance, income_history, expense_history, subscriptions, day,
          event_log, alerts, running, auto_ticks, msg_queue, messagebox, steps>>

-----------------------------------------------------------------------------
(* Bounds of the model.                                                    *)

\* host calls that change the zoo, per run
MaxSteps == 2

-----------------------------------------------------------------------------
(* Helpers.                                                                *)

Min(a, b) == IF a < b THEN a ELSE b
Max(a, b) == IF a > b THEN a ELSE b


Range(f) == {f[i] : i \in DOMAIN f}

\* list.remove(x): drops the first occurrence
RECURSIVE RemoveFirst(_, _)
RemoveFirst(f, x) ==
    IF f = <<>> THEN <<>>
    ELSE IF Head(f) = x THEN Tail(f)
    ELSE <<Head(f)>> \o RemoveFirst(Tail(f), x)

\* dict.get(k, 0)
get(d, k) == IF k \in DOMAIN d THEN d[k] ELSE 0

\* d[k] = v on a dict
put(d, k, v) == [x \in DOMAIN d \cup {k} |-> IF x = k THEN v ELSE d[x]]

-----------------------------------------------------------------------------
(* HealthObserver                                                          *)

\* HealthObserver.notify: prints one [ALERT] line
notify(s, id, message) ==
    [s EXCEPT !.alerts = Append(@, <<id, message>>)]

\* for obs in self._observers: obs.notify(self, message)
RECURSIVE notify_observers(_, _, _, _)
notify_observers(s, id, message, k) ==
    IF k > Len(s.animals[id]._observers) THEN s
    ELSE notify_observers(notify(s, id, message), id, message, k + 1)

\* a fault: the observer lists the animal, the animal not the observer
subscribe_one_sided(s, id) ==
    IF id \in Range(s.subscriptions) THEN s
    ELSE [s EXCEPT !.subscriptions = Append(@, id)]

subscribe(s, id) ==
    IF id \in Range(s.subscriptions) THEN s
    ELSE [s EXCEPT !.subscriptions = Append(@, id),
                   !.animals[id]._observers = Append(@, "observer")]

unsubscribe(s, id) ==
    IF id \notin Range(s.subscriptions) THEN s
    ELSE [s EXCEPT !.subscriptions = RemoveFirst(@, id),
                   !.animals[id]._observers = RemoveFirst(@, "observer")]

-----------------------------------------------------------------------------
(* Animal and its subclasses                                               *)

\* max(0.0, min(100.0, value))
\* a fault: the lower bound of the clamp is missing
clamp_above(value) == Min(1000, value)

clamp(value) == Max(0, Min(1000, value))

health(a) == clamp(a._health)
hunger(a) == clamp(a._hunger)
happiness(a) == clamp(a._happiness)

\* a fault: the alert is repeated on every assignment below 30
critical_alert_repeated(s, id, old) ==
    IF s.animals[id]._health < 300
    THEN notify_observers(s, id, "Health critical", 1)
    ELSE s

\* the health setter's first notification: health fell below 30 from `old`
critical_alert(s, id, old) ==
    IF s.animals[id]._health < 300 /\ old >= 300
    THEN notify_observers(s, id, "Health critical", 1)
    ELSE s

\* the health setter's second notification: health is 0
died_alert(s, id) ==
    IF s.animals[id]._health = 0
    THEN notify_observers(s, id, "This animal has died.", 1)
    ELSE s

\* the health setter
set_health(s, id, value) ==
    died_alert(critical_alert([s EXCEPT !.animals[id]._health = clamp(value)],
                              id, s.animals[id]._health),
               id)

set_hunger(s, id, value) == [s EXCEPT !.animals[id]._hunger = clamp(value)]

set_happiness(s, id, value) == [s EXCEPT !.animals[id]._happiness = clamp(value)]

\* self.health += delta, self.hunger += delta, self.happiness += delta:
\* the getter, then the setter
add_health(s, id, delta) == set_health(s, id, health(s.animals[id]) + delta)
add_hunger(s, id, delta) == set_hunger(s, id, hunger(s.animals[id]) + delta)
add_happiness(s, id, delta) == set_happiness(s, id, happiness(s.animals[id]) + delta)

is_alive(a) == health(a) > 0

\* isinstance(animal, Mammal): Mammal, Marsupial, Koala, Kangaroo
is_mammal(a) == a.class \in {"Mammal", "Koala", "Kangaroo"}

accepted_food_types(a) ==
    CASE a.class = "Koala" -> <<"eucalyptus">>
      [] a.class = "Kangaroo" -> <<"herbivore_food", "general_food">>
      [] a.class = "WedgeTailedEagle" -> <<"meaty_food">>
      [] OTHER -> <<"herbivore_food", "general_food">>

get_gestation_period_days(a) ==
    CASE a.class = "Koala" -> 34
      [] a.class = "Kangaroo" -> 30
      [] a.class = "WedgeTailedEagle" -> 20
      [] OTHER -> 60

\* _max_age as the constructors of the class chain leave it
max_age(class) ==
    CASE class \in {"Koala", "Kangaroo"} -> 18
      [] class = "WedgeTailedEagle" -> 15
      [] OTHER -> 25

\* Animal.__init__ (through the subclass constructors): the new object
Animal(class, species, name, age, sex) ==
    [class |-> class, species |-> species, name |-> name, age |-> age,
     _health |-> 1000, _hunger |-> 0, _happiness |-> 1000,
     _observers |-> <<>>, sex |-> sex, pregnant |-> FALSE,
     days_pregnant |-> 0, social_needs |-> 500, _max_age |-> max_age(class)]

\* species.lower(), for the species names the host is given
lower(species) ==
    CASE species = "Koala" -> "koala"
      [] species = "Kangaroo" -> "kangaroo"
      [] species = "Wedge-tailed Eagle" -> "wedge-tailed eagle"
      [] species = "Wombat" -> "wombat"
      [] OTHER -> species

\* str.title() of a lower-cased species
title(species) ==
    CASE species = "koala" -> "Koala"
      [] species = "kangaroo" -> "Kangaroo"
      [] species = "wedge-tailed eagle" -> "Wedge-Tailed Eagle"
      [] species = "wombat" -> "Wombat"
      [] OTHER -> species

\* keyword in text, for the keywords AnimalFactory.create looks for
contains(text, keyword) ==
    <<text, keyword>> \in {<<"koala", "koala">>, <<"kangaroo", "kangaroo">>,
                           <<"wedge-tailed eagle", "eagle">>,
                           <<"wedge-tailed eagle", "wedge">>}

\* the class AnimalFactory.create picks for a lower-cased species
factory_class(low) ==
    IF contains(low, "koala") THEN "Koala"
    ELSE IF contains(low, "kangaroo") THEN "Kangaroo"
    ELSE IF contains(low, "eagle") \/ contains(low, "wedge") THEN "WedgeTailedEagle"
    ELSE "Mammal"

\* the species the constructor of that class sets
class_species(class, low) ==
    CASE class = "Koala" -> "Koala"
      [] class = "Kangaroo" -> "Kangaroo"
      [] class = "WedgeTailedEagle" -> "Wedge-tailed Eagle"
      [] OTHER -> title(low)

\* name or f"{species}-{self.id}"
animal_name(name, species, id) == IF name = "" THEN <<species, id>> ELSE <<name, 0>>

\* AnimalFactory.create: the object gets the id Animal._id_counter, which ret
\* returns
create(s, species, name, age, sex) ==
    [s EXCEPT !.animals =
                  put(@, s._id_counter,
                      Animal(factory_class(lower(species)),
                             class_species(factory_class(lower(species)), lower(species)),
                             animal_name(name,
                                         class_species(factory_class(lower(species)),
                                                       lower(species)),
                                         s._id_counter),
                             age, sex)),
              !._id_counter = @ + 1,
              !.ret = s._id_counter]

\* baby.happiness = 80.0; baby.health = 80.0; return baby
newborn(s, baby) ==
    [set_health(set_happiness(s, baby, 800), baby, 800) EXCEPT !.ret = baby]

\* the factory's new object, as give_birth goes on with it
created(s) == newborn(s, s.ret)

\* Animal.give_birth; `sex` is the newborn's random.choice(['M', 'F'])
give_birth(s, id, sex) == created(create(s, s.animals[id].species, "", 0, sex))

\* daily_update: happiness drops if hungry
hungry_mood(s, id) ==
    IF hunger(s.animals[id]) > 500
    THEN add_happiness(s, id, -((hunger(s.animals[id]) - 500) \div 10))
    ELSE s

\* daily_update: health declines if very hungry, regenerates if well fed and happy
hungry_health(s, id) ==
    IF hunger(s.animals[id]) > 800
    THEN add_health(s, id, -((hunger(s.animals[id]) - 800) \div 2))
    ELSE IF hunger(s.animals[id]) < 300 /\ happiness(s.animals[id]) > 600
         THEN add_health(s, id, 5)
         ELSE s

\* daily_update: social needs effect
social_mood(s, id) ==
    IF s.animals[id].social_needs < 300 THEN add_happiness(s, id, -10) ELSE s

\* a fault: the birth comes one update late
term_late(s, id, sex) ==
    IF s.animals[id].days_pregnant > get_gestation_period_days(s.animals[id])
    THEN give_birth([s EXCEPT !.animals[id].pregnant = FALSE,
                              !.animals[id].days_pregnant = 0],
                    id, sex)
    ELSE [s EXCEPT !.ret = 0]

\* daily_update: the pregnancy reached its term (days_pregnant is counted)
term(s, id, sex) ==
    IF s.animals[id].days_pregnant >= get_gestation_period_days(s.animals[id])
    THEN give_birth([s EXCEPT !.animals[id].pregnant = FALSE,
                              !.animals[id].days_pregnant = 0],
                    id, sex)
    ELSE [s EXCEPT !.ret = 0]

\* daily_update: pregnancy progression
pregnancy(s, id, sex) ==
    IF s.animals[id].pregnant
    THEN term([s EXCEPT !.animals[id].days_pregnant = @ + 1], id, sex)
    ELSE [s EXCEPT !.ret = 0]

\* a fault: the health penalty is taken before the hunger increase
daily_update_penalty_first(s, id, draw, sex) ==
    pregnancy(
        social_mood(
            hungry_mood(
                add_hunger(hungry_health([s EXCEPT !.animals[id].age = @ + 1], id),
                           id, draw),
                id),
            id),
        id, sex)

\* Animal.daily_update; `draw` is random.uniform(5, 15), `sex` the sex of a
\* newborn.  Returns the newborn's id in ret, 0 for None.
daily_update(s, id, draw, sex) ==
    pregnancy(
        social_mood(
            hungry_health(
                hungry_mood(
                    add_hunger([s EXCEPT !.animals[id].age = @ + 1], id, draw),
                    id),
                id),
            id),
        id, sex)

\* Food(food_type, nutrition_value, cost)
Food(food_type, nutrition_value, cost) ==
    [food_type |-> food_type, nutrition_value |-> nutrition_value, cost |-> cost]

\* a fault: refused food still counts for a tenth of its nutrition in health
feed_refused_heals(s, id, food) ==
    IF food.food_type \notin Range(accepted_food_types(s.animals[id]))
    THEN [add_health(add_happiness(add_hunger(s, id, -50), id, -50),
                     id, Min(50, food.nutrition_value \div 10))
          EXCEPT !.ret = "refused"]
    ELSE [add_health(
              add_happiness(add_hunger(s, id, -food.nutrition_value),
                            id, Min(100, (food.nutrition_value * 3) \div 10)),
              id, Min(50, food.nutrition_value \div 10))
          EXCEPT !.ret = "ate"]

\* Animal.feed; ret is "refused" or "ate"
feed(s, id, food) ==
    IF food.food_type \notin Range(accepted_food_types(s.animals[id]))
    THEN [add_happiness(add_hunger(s, id, -50), id, -50) EXCEPT !.ret = "refused"]
    ELSE [add_health(
              add_happiness(add_hunger(s, id, -food.nutrition_value),
                            id, Min(100, (food.nutrition_value * 3) \div 10)),
              id, Min(50, food.nutrition_value \div 10))
          EXCEPT !.ret = "ate"]

\* attempt_breed_with: make the female pregnant
conceive(s, female) ==
    [s EXCEPT !.animals[female].pregnant = TRUE,
              !.animals[female].days_pregnant = 0,
              !.ret = TRUE]

\* a fault: the animal the call is made on becomes pregnant
attempt_breed_with_self(s, id, partner, draw) ==
    IF s.animals[id].species # s.animals[partner].species
    THEN [s EXCEPT !.raised = "IncompatibleSpeciesError"]
    ELSE IF s.animals[id].sex = s.animals[partner].sex
    THEN [s EXCEPT !.ret = FALSE]
    ELSE IF health(s.animals[id]) < 600 \/ health(s.animals[partner]) < 600
    THEN [s EXCEPT !.ret = FALSE]
    ELSE IF happiness(s.animals[id]) < 500 \/ happiness(s.animals[partner]) < 500
    THEN [s EXCEPT !.ret = FALSE]
    ELSE IF s.animals[id].pregnant \/ s.animals[partner].pregnant
    THEN [s EXCEPT !.ret = FALSE]
    ELSE IF draw * 2 < happiness(s.animals[id]) + happiness(s.animals[partner])
    THEN conceive(s, id)
    ELSE [s EXCEPT !.ret = FALSE]

\* a fault: the sexes are compared before the species
attempt_breed_with_sex_first(s, id, partner, draw) ==
    IF s.animals[id].sex = s.animals[partner].sex
    THEN [s EXCEPT !.ret = FALSE]
    ELSE IF s.animals[id].species # s.animals[partner].species
    THEN [s EXCEPT !.raised = "IncompatibleSpeciesError"]
    ELSE IF health(s.animals[id]) < 600 \/ health(s.animals[partner]) < 600
    THEN [s EXCEPT !.ret = FALSE]
    ELSE IF happiness(s.animals[id]) < 500 \/ happiness(s.animals[partner]) < 500
    THEN [s EXCEPT !.ret = FALSE]
    ELSE IF s.animals[id].pregnant \/ s.animals[partner].pregnant
    THEN [s EXCEPT !.ret = FALSE]
    ELSE IF draw * 2 < happiness(s.animals[id]) + happiness(s.animals[partner])
    THEN conceive(s, IF s.animals[id].sex = "F" THEN id ELSE partner)
    ELSE [s EXCEPT !.ret = FALSE]

\* Animal.attempt_breed_with; `draw` is random.random() in thousandths
attempt_breed_with(s, id, partner, draw) ==
    IF s.animals[id].species # s.animals[partner].species
    THEN [s EXCEPT !.raised = "IncompatibleSpeciesError"]
    ELSE IF s.animals[id].sex = s.animals[partner].sex
    THEN [s EXCEPT !.ret = FALSE]
    ELSE IF health(s.animals[id]) < 600 \/ health(s.animals[partner]) < 600
    THEN [s EXCEPT !.ret = FALSE]
    ELSE IF happiness(s.animals[id]) < 500 \/ happiness(s.animals[partner]) < 500
    THEN [s EXCEPT !.ret = FALSE]
    ELSE IF s.animals[id].pregnant \/ s.animals[partner].pregnant
    THEN [s EXCEPT !.ret = FALSE]
    ELSE IF draw * 2 < happiness(s.animals[id]) + happiness(s.animals[partner])
    THEN conceive(s, IF s.animals[id].sex = "F" THEN id ELSE partner)
    ELSE [s EXCEPT !.ret = FALSE]

-----------------------------------------------------------------------------
(* Enclosure                                                               *)

Enclosure(name, capacity, habitat_type) ==
    [name |-> name, capacity |-> capacity, habitat_type |-> habitat_type,
     cleanliness |-> 1000, animals |-> <<>>, upgrade_level |-> 1]

\* Enclosure.add_animal on enclosure number e
\* a fault: the capacity check is off by one
add_animal_over(s, e, id) ==
    IF Len(s.enclosures[e].animals) > s.enclosures[e].capacity
    THEN [s EXCEPT !.raised = "HabitatCapacityExceededError"]
    ELSE IF s.enclosures[e].habitat_type = "aviary" /\ is_mammal(s.animals[id])
    THEN [s EXCEPT !.raised = "IncompatibleSpeciesError"]
    ELSE [s EXCEPT !.enclosures[e].animals = Append(@, id)]

\* a fault: the compatibility check comes before the capacity check
add_animal_habitat_first(s, e, id) ==
    IF s.enclosures[e].habitat_type = "aviary" /\ is_mammal(s.animals[id])
    THEN [s EXCEPT !.raised = "IncompatibleSpeciesError"]
    ELSE IF Len(s.enclosures[e].animals) >= s.enclosures[e].capacity
    THEN [s EXCEPT !.raised = "HabitatCapacityExceededError"]
    ELSE [s EXCEPT !.enclosures[e].animals = Append(@, id)]

\* a fault: the compatibility check is missing
add_animal_any(s, e, id) ==
    IF Len(s.enclosures[e].animals) >= s.enclosures[e].capacity
    THEN [s EXCEPT !.raised = "HabitatCapacityExceededError"]
    ELSE [s EXCEPT !.enclosures[e].animals = Append(@, id)]

add_animal(s, e, id) ==
    IF Len(s.enclosures[e].animals) >= s.enclosures[e].capacity
    THEN [s EXCEPT !.raised = "HabitatCapacityExceededError"]
    ELSE IF s.enclosures[e].habitat_type = "aviary" /\ is_mammal(s.animals[id])
    THEN [s EXCEPT !.raised = "IncompatibleSpeciesError"]
    ELSE [s EXCEPT !.enclosures[e].animals = Append(@, id)]

remove_animal(s, e, id) ==
    IF id \in Range(s.enclosures[e].animals)
    THEN [s EXCEPT !.enclosures[e].animals = RemoveFirst(@, id)]
    ELSE s

\* for a in self.animals: a.happiness -= 1; a.health -= 0.3
RECURSIVE maintenance_penalty(_, _, _)
maintenance_penalty(s, e, i) ==
    IF i > Len(s.enclosures[e].animals) THEN s
    ELSE maintenance_penalty(
             add_health(add_happiness(s, s.enclosures[e].animals[i], -10),
                        s.enclosures[e].animals[i], -3),
             e, i + 1)

\* a fault: a negative cleanliness counts as clean
dirty_above_zero(s, e) ==
    IF s.enclosures[e].cleanliness < 300 /\ s.enclosures[e].cleanliness >= 0
    THEN maintenance_penalty(s, e, 1)
    ELSE s

\* daily_maintenance: the penalty of a dirty enclosure
dirty(s, e) ==
    IF s.enclosures[e].cleanliness < 300 THEN maintenance_penalty(s, e, 1) ELSE s

daily_maintenance(s, e) ==
    dirty([s EXCEPT !.enclosures[e].cleanliness =
                        @ - Len(s.enclosures[e].animals) * 5],
          e)

clean(s, e) == [s EXCEPT !.enclosures[e].cleanliness = 1000]

\* for a in self.animals: a.happiness += delta   (upgrade, heatwave)
RECURSIVE each_happiness(_, _, _, _)
each_happiness(s, e, delta, i) ==
    IF i > Len(s.enclosures[e].animals) THEN s
    ELSE each_happiness(add_happiness(s, s.enclosures[e].animals[i], delta),
                        e, delta, i + 1)

\* a fault: the upgrade also tidies the enclosure
upgrade_cleaning(s, e) ==
    each_happiness([s EXCEPT !.enclosures[e].upgrade_level = @ + 1,
                             !.enclosures[e].capacity = @ + 2,
                             !.enclosures[e].cleanliness = 1000],
                   e, 50, 1)

upgrade(s, e) ==
    each_happiness([s EXCEPT !.enclosures[e].upgrade_level = @ + 1,
                             !.enclosures[e].capacity = @ + 2],
                   e, 50, 1)

-----------------------------------------------------------------------------
(* Visitor                                                                 *)

\* sum(a.happiness for a in enclosure.animals)
RECURSIVE sum_happiness(_, _, _)
sum_happiness(s, e, i) ==
    IF i > Len(s.enclosures[e].animals) THEN 0
    ELSE happiness(s.animals[s.enclosures[e].animals[i]]) + sum_happiness(s, e, i + 1)

avg_happiness(s, e) ==
    IF s.enclosures[e].animals # <<>>
    THEN sum_happiness(s, e, 1) \div Len(s.enclosures[e].animals)
    ELSE 500

\* Visitor.satisfaction after the visit
satisfaction(s, e) ==
    700 + (avg_happiness(s, e) - 500) \div 20
        + (s.enclosures[e].cleanliness - 500) \div 50

\* a fault: the spend is not capped by the budget
visit_enclosure_overspent(s, e, budget, u) ==
    Max(0, (u * satisfaction(s, e)) \div 1000)

\* Visitor(budget).visit_enclosure(enclosure): the spend, in cents; `budget`
\* is in cents and `u`, random.uniform(5, 25), in cents
visit_enclosure(s, e, budget, u) ==
    Max(0, Min(budget, (u * satisfaction(s, e)) \div 1000))

-----------------------------------------------------------------------------
(* FinanceManager                                                          *)

\* a fault: the income is credited and never recorded
add_income_unrecorded(s, amount, reason) ==
    [s EXCEPT !.balance = @ + amount]

add_income(s, amount, reason) ==
    [s EXCEPT !.balance = @ + amount,
              !.income_history = Append(@, <<amount, reason>>)]

\* a fault: the expense is not checked against the balance
add_expense_unchecked(s, amount, reason) ==
    [s EXCEPT !.balance = @ - amount,
              !.expense_history = Append(@, <<amount, reason>>)]

\* a fault: an expense of the whole balance is rejected
add_expense_strict(s, amount, reason) ==
    IF amount >= s.balance
    THEN [s EXCEPT !.raised = "InsufficientFundsError"]
    ELSE [s EXCEPT !.balance = @ - amount,
                   !.expense_history = Append(@, <<amount, reason>>)]

add_expense(s, amount, reason) ==
    IF amount > s.balance
    THEN [s EXCEPT !.raised = "InsufficientFundsError"]
    ELSE [s EXCEPT !.balance = @ - amount,
                   !.expense_history = Append(@, <<amount, reason>>)]

-----------------------------------------------------------------------------
(* Zoo                                                                     *)

\* Zoo.daily_ticket_price, in cents
daily_ticket_price == 2500

\* Zoo.log_event: one line of the event log, "Day {day}: {text}"; arg is the
\* amount or the animal the text names; prefix is "" for the zoo's own lines
log_event(s, text, arg) ==
    [s EXCEPT !.event_log = Append(@, [day |-> s.day, text |-> text,
                                       arg |-> arg, prefix |-> ""])]

\* Zoo.__init__ up to create_default_setup, and the three starter enclosures
empty_zoo ==
    [animals |-> <<>>, _id_counter |-> 1,
     enclosures |-> <<Enclosure("Forest Enclosure", 4, "forest"),
                      Enclosure("Grassland Enclosure", 5, "grassland"),
                      Enclosure("Aviary", 6, "aviary")>>,
     food_inventory |-> <<>>, medicine_inventory |-> <<>>,
     balance |-> 200000, income_history |-> <<>>,
     expense_history |-> <<>>, subscriptions |-> <<>>,
     day |-> 1, event_log |-> <<>>, alerts |-> <<>>,
     raised |-> "", ret |-> 0]

\* the starter animals k1, k2, kang and eagle, with ids 1 to 4
starters(s, sexes) ==
    create(create(create(create(s, "Koala", "Kiki", 2 * 365, sexes[1]),
                         "Koala", "Koko", 3 * 365, sexes[2]),
                  "Kangaroo", "Joey", 4 * 365, sexes[3]),
           "Wedge-tailed Eagle", "Aerie", 5 * 365, sexes[4])

\* place animals, subscribe observers
placement(s) ==
    subscribe(subscribe(subscribe(subscribe(
        add_animal(add_animal(add_animal(add_animal(s, 1, 1), 1, 2), 2, 3), 3, 4),
        1), 2), 3), 4)

\* initial food and medicine
initial_food ==
    [ft \in {"eucalyptus", "herbivore_food", "seeds", "meaty_food", "general_food"} |->
        CASE ft = "eucalyptus" -> 20
          [] ft = "herbivore_food" -> 30
          [] ft = "seeds" -> 20
          [] ft = "meaty_food" -> 10
          [] OTHER -> 25]

\* Zoo.__init__ with Zoo.create_default_setup; sexes are the four starters'
\* random.choice(['M', 'F'])
create_default_setup(sexes) ==
    [placement(starters(empty_zoo, sexes))
        EXCEPT !.food_inventory = initial_food,
               !.medicine_inventory = [m \in {"basic_med"} |-> 5],
               !.ret = 0]

\* buy_food after the expense: stock and log
stocked(s, food_type, quantity, cost) ==
    IF s.raised # "" THEN s
    ELSE log_event([s EXCEPT !.food_inventory =
                                 put(@, food_type, get(@, food_type) + quantity)],
                   "Purchased", cost)

\* Zoo.buy_food; price_per_unit in cents
buy_food(s, food_type, quantity, price_per_unit) ==
    stocked(add_expense(s, price_per_unit * quantity, "Bought food"),
            food_type, quantity, price_per_unit * quantity)

\* the object `id` is referenced by nothing: it is garbage
discard(s, id) ==
    [s EXCEPT !.animals = [x \in DOMAIN s.animals \ {id} |-> s.animals[x]]]

\* buy_animal after the expense: log
bought(s, animal) ==
    IF s.raised # "" THEN s ELSE log_event(s, "Bought", animal)

\* buy_animal after enclosure.add_animal(animal): subscribe, pay
housed(s, animal, price) ==
    IF s.raised # "" THEN discard(s, animal)
    ELSE bought(add_expense(subscribe(s, animal), price, "Bought animal"), animal)

\* a fault: the animal is paid for before it is placed
purchased_prepaid(s, e, price) ==
    housed(add_animal(add_expense(s, price, "Paid in advance"), e, s.ret), s.ret, 0)

\* buy_animal after factory.create(species)
purchased(s, e, price) == housed(add_animal(s, e, s.ret), s.ret, price)

\* Zoo.buy_animal on enclosure number e; sex is the new animal's random sex
buy_animal(s, species, e, price, sex) ==
    IF price > s.balance
    THEN [s EXCEPT !.raised = "InsufficientFundsError"]
    ELSE purchased(create(s, species, "", 0, sex), e, price)

\* the visitors' loop of daily_operations: the sum of the spends
RECURSIVE visitors_spend(_, _, _)
visitors_spend(s, d, k) ==
    IF k = 0 THEN 0
    ELSE visit_enclosure(s, d.venc, d.budget, d.u) + visitors_spend(s, d, k - 1)

\* a fault: the first accepted kind is taken whether or not it is in stock
first_listed(s, kinds, i) == kinds[1]

\* for ft in a.accepted_food_types(): the first kind in stock, "" when none
RECURSIVE first_in_stock(_, _, _)
first_in_stock(s, kinds, i) ==
    IF i > Len(kinds) THEN ""
    ELSE IF get(s.food_inventory, kinds[i]) > 0 THEN kinds[i]
    ELSE first_in_stock(s, kinds, i + 1)

\* a fault: an animal that finds no food gets no hungrier for it
ration_idle(s, id, ft) ==
    IF ft # ""
    THEN feed([s EXCEPT !.food_inventory[ft] = @ - 1], id, Food(ft, 200, 0))
    ELSE s

\* daily_operations: consume one unit of ft and feed it, or get hungrier
ration(s, id, ft) ==
    IF ft # ""
    THEN feed([s EXCEPT !.food_inventory[ft] = @ - 1], id, Food(ft, 200, 0))
    ELSE add_hunger(s, id, 50)

\* daily_operations: the auto-feed of one animal
auto_feed(s, id) ==
    ration(s, id, first_in_stock(s, accepted_food_types(s.animals[id]), 1))

\* daily_operations: after enc.add_animal(baby)
placed(s, baby) ==
    IF s.raised = ""
    THEN log_event(subscribe(s, baby), "New birth!", baby)
    ELSE IF s.raised = "HabitatCapacityExceededError"
    THEN log_event(discard([s EXCEPT !.raised = ""], baby),
                   "A newborn couldn't be placed and sadly didn't survive.", 0)
    ELSE s

\* daily_operations: "if baby:", with the baby that daily_update returned
birth(s, e) ==
    IF s.ret = 0 THEN s ELSE placed(add_animal(s, e, s.ret), s.ret)

\* a fault: the death is logged but the animal stays in the enclosure
death_logged(s, e, id) ==
    IF s.raised # "" THEN s
    ELSE IF ~is_alive(s.animals[id])
    THEN log_event(s, "died due to poor health.", id)
    ELSE s

\* daily_operations: "if not a.is_alive():"
death(s, e, id) ==
    IF s.raised # "" THEN s
    ELSE IF ~is_alive(s.animals[id])
    THEN log_event(remove_animal(s, e, id), "died due to poor health.", id)
    ELSE s

\* a fault: the dead mother is removed before her newborn is placed
animal_step_death_first(s, e, id, d) ==
    birth(death(daily_update(auto_feed(s, id), id, d.hunger, d.sex), e, id), e)

\* the body of "for a in list(enc.animals)" in daily_operations
animal_step(s, e, id, d) ==
    death(birth(daily_update(auto_feed(s, id), id, d.hunger, d.sex), e), e, id)

RECURSIVE animals_pass(_, _, _, _, _)
animals_pass(s, e, snapshot, i, d) ==
    IF s.raised # "" \/ i > Len(snapshot) THEN s
    ELSE animals_pass(animal_step(s, e, snapshot[i], d), e, snapshot, i + 1, d)

\* a fault: the loop runs over the list itself, which births and deaths change
RECURSIVE live_pass(_, _, _, _)
live_pass(s, e, i, d) ==
    IF s.raised # "" \/ i > Len(s.enclosures[e].animals) THEN s
    ELSE live_pass(animal_step(s, e, s.enclosures[e].animals[i], d), e, i + 1, d)

residents_pass_live(s, e, d) == live_pass(s, e, 1, d)

\* "for a in list(enc.animals)": the loop over the snapshot of the residents
residents_pass(s, e, d) == animals_pass(s, e, s.enclosures[e].animals, 1, d)

\* "for enc in self.enclosures" of daily_operations
RECURSIVE enclosures_pass(_, _, _)
enclosures_pass(s, e, d) ==
    IF s.raised # "" \/ e > Len(s.enclosures) THEN s
    ELSE enclosures_pass(residents_pass(daily_maintenance(s, e), e, d), e + 1, d)

\* the heatwave's loop over the enclosures
RECURSIVE heatwave(_, _)
heatwave(s, e) ==
    IF e > Len(s.enclosures) THEN s
    ELSE heatwave(each_happiness([s EXCEPT !.enclosures[e].cleanliness = @ - 150],
                                 e, -100, 1),
                  e + 1)

\* the heatwave after its expense: the log line, unless the expense raised
cooled(s) == IF s.raised # "" THEN s ELSE log_event(s, "Heatwave", 0)

\* except InsufficientFundsError: pass
absorbed(s) ==
    IF s.raised = "InsufficientFundsError" THEN [s EXCEPT !.raised = ""] ELSE s

\* the escape's repair: try add_expense, except InsufficientFundsError: pass
repairs(s) == absorbed(add_expense(s, 5000, "Escape incident repairs"))

\* the escape scare of animal a
escape(s, a) == repairs(log_event(add_happiness(s, a, -200), "escape scare", a))

\* a fault: the donor gives whatever the balance is
handle_random_events_generous(s, d) ==
    IF d.r < 6
    THEN cooled(add_expense(heatwave(s, 1), 20000, "Heatwave emergency cooling"))
    ELSE IF d.r < 12
    THEN log_event(add_income(s, d.donation, "Donation"), "donor", d.donation)
    ELSE IF d.r < 18
    THEN IF s.enclosures[d.eenc].animals # <<>>
         THEN escape(s, s.enclosures[d.eenc].animals[
                            (d.pick % Len(s.enclosures[d.eenc].animals)) + 1])
         ELSE s
    ELSE s

\* Zoo.handle_random_events; d.r is random.random() in hundredths, d.donation
\* random.uniform(100, 500) in cents, d.eenc and d.pick the random.choice of
\* the escape's enclosure and animal
handle_random_events(s, d) ==
    IF d.r < 6
    THEN cooled(add_expense(heatwave(s, 1), 20000, "Heatwave emergency cooling"))
    ELSE IF d.r < 12
    THEN IF s.balance > 100000
         THEN log_event(add_income(s, d.donation, "Donation"), "donor", d.donation)
         ELSE s
    ELSE IF d.r < 18
    THEN IF s.enclosures[d.eenc].animals # <<>>
         THEN escape(s, s.enclosures[d.eenc].animals[
                            (d.pick % Len(s.enclosures[d.eenc].animals)) + 1])
         ELSE s
    ELSE s

\* daily_operations from "random events" on
day_end(s, d) ==
    IF s.raised # "" THEN s ELSE [s EXCEPT !.day = @ + 1]

events(s, d) ==
    IF s.raised # "" THEN s ELSE day_end(handle_random_events(s, d), d)

\* daily_operations: the revenue of the visitors and the tickets
revenue(s, d) ==
    visitors_spend(s, d, d.visitor_count) + d.visitor_count * daily_ticket_price

\* daily_operations: credit and log the revenue
takings(s, amount) ==
    log_event(add_income(s, amount, "Daily visitors & sales"), "visitors", amount)

\* Zoo.daily_operations; d holds the random draws of the tick
daily_operations(s, d) ==
    events(enclosures_pass(takings(s, revenue(s, d)), 1, d), d)

-----------------------------------------------------------------------------
(* The inputs: what the player types and what the random source draws.     *)

Sexes == {"M", "F"}

\* the sexes drawn for Kiki, Koko, Joey and Aerie
StarterSexes == {<<"F", "M", "M", "F">>, <<"M", "F", "F", "M">>}

\* the draws of a tick: randint(5, 20) visitors, each with the same
\* uniform(10, 200) budget (cents), uniform(5, 25) factor u (cents) and choice
\* venc of enclosure; the uniform(5, 15) hunger of daily_update (tenths), the
\* same for every animal; the event draw r (hundredths) with the donation
\* (cents) or the escape's choices that the event draws
Draw(visitor_count, budget, u, venc, hunger_draw, r, donation, eenc, pick) ==
    [visitor_count |-> visitor_count, budget |-> budget, u |-> u, venc |-> venc,
     hunger |-> hunger_draw, r |-> r, donation |-> donation, eenc |-> eenc,
     pick |-> pick]

DayDraws ==
    {Draw(5, 1000, 500, 1, 50, 3, 0, 1, 0),        \* heatwave
     Draw(20, 20000, 2500, 3, 150, 9, 10000, 1, 0), \* donation
     Draw(5, 1000, 500, 2, 150, 15, 0, 1, 0),       \* escape scare, enclosure 1
     Draw(20, 20000, 2500, 1, 50, 15, 0, 3, 1),     \* escape scare, enclosure 3
     Draw(5, 1000, 500, 3, 50, 50, 0, 1, 0),        \* no event
     Draw(20, 20000, 2500, 2, 150, 50, 0, 1, 0)}    \* no event

\* some animal gives birth in the next tick
birth_due(s) ==
    \E id \in DOMAIN s.animals :
        /\ s.animals[id].pregnant
        /\ s.animals[id].days_pregnant + 1 >= get_gestation_period_days(s.animals[id])

\* the draws of one tick, with the sex of a newborn
TickDraws(s) ==
    {[sex |-> x] @@ w : w \in DayDraws, x \in (IF birth_due(s) THEN Sexes ELSE {"F"})}

\* the draws of a tick that the autoplay runs: the first and the last of DayDraws
AutoDraws(s) == {w \in TickDraws(s) : w.r = 3 \/ (w.r = 50 /\ w.visitor_count = 20)}

\* what the player types into the dialogs
Orders == {<<"eucalyptus", 10>>, <<"meaty_food", 500>>}
FoodTypes == {"eucalyptus", "meaty_food"}
SpeciesNames == {"Koala", "Wedge-tailed Eagle", "Wombat"}
EnclosureNumbers == {1, 3}
\* the animal the player picks in a listed enclosure: the first
Choices == {1}
\* the sex drawn for a purchased animal
PurchaseSexes == {"F"}
\* random.random() of attempt_breed_with, in thousandths
BreedDraws == {0, 999}

\* the answers <<p1, p2>> to the two parent dialogs of attempt_breed_pair
Couples == {<<1, 2>>, <<2, 1>>, <<1, 1>>, <<1, 3>>}

\* attempt_breed_with(partner) gets as far as random.random()
chance_drawn(s, id, partner) ==
    /\ s.animals[id].species = s.animals[partner].species
    /\ s.animals[id].sex # s.animals[partner].sex
    /\ health(s.animals[id]) >= 600 /\ health(s.animals[partner]) >= 600
    /\ happiness(s.animals[id]) >= 500 /\ happiness(s.animals[partner]) >= 500
    /\ ~s.animals[id].pregnant /\ ~s.animals[partner].pregnant

\* the draws of one attempt_breed_with: none is taken on an early return
PairDraws(s, id, partner) ==
    IF chance_drawn(s, id, partner) THEN BreedDraws ELSE {0}

-----------------------------------------------------------------------------
(* OzZooApp: the host's handlers, one action each.                         *)

\* the zoo the handlers call into
Zoo ==
    [animals |-> animals, _id_counter |-> _id_counter, enclosures |-> enclosures,
     food_inventory |-> food_inventory, medicine_inventory |-> medicine_inventory,
     balance |-> balance, income_history |-> income_history,
     expense_history |-> expense_history, subscriptions |-> subscriptions,
     day |-> day, event_log |-> event_log, alerts |-> alerts,
     raised |-> "", ret |-> 0]

\* the zoo after the call is s
Becomes(s) ==
    /\ animals' = s.animals
    /\ _id_counter' = s._id_counter
    /\ enclosures' = s.enclosures
    /\ food_inventory' = s.food_inventory
    /\ medicine_inventory' = s.medicine_inventory
    /\ balance' = s.balance
    /\ income_history' = s.income_history
    /\ expense_history' = s.expense_history
    /\ subscriptions' = s.subscriptions
    /\ day' = s.day
    /\ event_log' = s.event_log
    /\ alerts' = s.alerts

\* the call changed the zoo (an id taken by an object that was dropped again
\* does not count)
Changed(s) ==
    [s EXCEPT !._id_counter = 0, !.raised = "", !.ret = 0]
        # [Zoo EXCEPT !._id_counter = 0]

\* a host call that leaves the zoo as s.  A run is at most MaxSteps calls that
\* change the zoo, and it ends with the first call that changes nothing of it
\* (a rejected purchase, a warning).  The calls are at least the 500 ms of
\* process_queue apart (the tick timer runs every 2500 ms): the queue has
\* been drained when a call starts
Call(s) ==
    /\ msg_queue = <<>>
    /\ Becomes(s)
    /\ IF Changed(s)
       THEN steps < MaxSteps /\ steps' = steps + 1
       ELSE steps <= MaxSteps /\ steps' = MaxSteps + 1

Box(kind, heading) == [kind |-> kind, title |-> heading]

\* advance_day after self.zoo.daily_operations(): the summary message is
\* queued, or the exception is shown
day_advanced(s) ==
    /\ steps < MaxSteps
    /\ Call(s)
    /\ IF s.raised = ""
       THEN /\ msg_queue' = Append(msg_queue,
                                   [s.event_log[Len(s.event_log)]
                                        EXCEPT !.prefix = "Day advanced: "])
            /\ UNCHANGED messagebox
       ELSE /\ messagebox' = Box("showerror", "Error during day processing")
            /\ UNCHANGED msg_queue

\* OzZooApp.advance_day with the draws d
advance_day(d) == day_advanced(daily_operations(Zoo, d))

\* the "Advance Day" button
AdvanceDay ==
    /\ \E d \in TickDraws(Zoo) : advance_day(d)
    /\ UNCHANGED <<running, auto_ticks>>

\* OzZooApp.start_auto (the "Start Auto" button), which runs auto_tick
StartAuto ==
    /\ ~running
    /\ running' = TRUE
    /\ \E d \in AutoDraws(Zoo) : advance_day(d)
    /\ auto_ticks' = auto_ticks + 1

\* OzZooApp.pause_auto (the "Pause" button)
PauseAuto ==
    /\ steps <= MaxSteps
    /\ running
    /\ running' = FALSE
    /\ UNCHANGED <<animals, _id_counter, enclosures, food_inventory,
                   medicine_inventory, balance, income_history, expense_history,
                   subscriptions, day, event_log, alerts, auto_ticks, msg_queue,
                   messagebox, steps>>

\* OzZooApp.auto_tick, run by a timer that after() set
AutoTick ==
    /\ steps <= MaxSteps
    /\ auto_ticks > 0
    /\ IF running
       THEN /\ \E d \in AutoDraws(Zoo) : advance_day(d)
            /\ auto_ticks' = auto_ticks
       ELSE /\ auto_ticks' = auto_ticks - 1
            /\ UNCHANGED <<animals, _id_counter, enclosures, food_inventory,
                           medicine_inventory, balance, income_history,
                           expense_history, subscriptions, day, event_log,
                           alerts, msg_queue, messagebox, steps>>
    /\ UNCHANGED running

\* OzZooApp.process_queue, run every 500 ms: moves the queued messages into
\* the event log (and redraws)
ProcessQueue ==
    /\ steps <= MaxSteps
    /\ msg_queue # <<>>
    /\ event_log' = event_log \o msg_queue
    /\ msg_queue' = <<>>
    /\ UNCHANGED <<animals, _id_counter, enclosures, food_inventory,
                   medicine_inventory, balance, income_history, expense_history,
                   subscriptions, day, alerts, running, auto_ticks, messagebox,
                   steps>>

\* the price table of buy_food_dialog, in cents
food_price(ft) ==
    CASE ft = "eucalyptus" -> 300
      [] ft = "herbivore_food" -> 200
      [] ft = "seeds" -> 150
      [] ft = "meaty_food" -> 400
      [] ft = "general_food" -> 250
      [] OTHER -> 200

\* buy_food_dialog after self.zoo.buy_food(ft, qty, price)
food_bought(s) ==
    /\ Call(s)
    /\ messagebox' = IF s.raised = "InsufficientFundsError"
                     THEN Box("showerror", "Funds")
                     ELSE Box("showinfo", "Success")

\* OzZooApp.buy_food_dialog
BuyFood ==
    /\ \E order \in Orders :
           food_bought(buy_food(Zoo, order[1], order[2], food_price(order[1])))
    /\ UNCHANGED <<running, auto_ticks, msg_queue>>

\* the price table of buy_animal_dialog, in cents
animal_price(species) ==
    CASE lower(species) = "koala" -> 40000
      [] lower(species) = "kangaroo" -> 35000
      [] lower(species) = "wedge-tailed eagle" -> 50000
      [] OTHER -> 30000

\* buy_animal_dialog after self.zoo.buy_animal(species, enclosure, cost)
animal_bought(s) ==
    /\ Call(s)
    /\ messagebox' =
           CASE s.raised = "" -> Box("showinfo", "Bought")
             [] s.raised = "InsufficientFundsError" -> Box("showerror", "Funds")
             [] s.raised = "IncompatibleSpeciesError" -> Box("showerror", "Incompatibility")
             [] s.raised = "HabitatCapacityExceededError" -> Box("showerror", "Capacity")

\* OzZooApp.buy_animal_dialog
BuyAnimal ==
    /\ \E species \in SpeciesNames, enc_index \in EnclosureNumbers, sex \in PurchaseSexes :
           animal_bought(buy_animal(Zoo, species, enc_index, animal_price(species), sex))
    /\ UNCHANGED <<running, auto_ticks, msg_queue>>

\* clean_enclosure_dialog: cost = 20 * (1 + len(enc.animals)/2), in cents
clean_cost(s, idx) == 2000 + 1000 * Len(s.enclosures[idx].animals)

\* a fault: the enclosure is cleaned whether or not the expense went through
clean_unpaid(s, idx) == clean(s, idx)

\* clean_enclosure_dialog, the try block after add_expense: enc.clean()
clean_paid(s, idx) == IF s.raised = "" THEN clean(s, idx) ELSE s

\* clean_enclosure_dialog after add_expense(cost, "Cleaning enclosure")
cleaned(s, idx) ==
    /\ Call(clean_paid(s, idx))
    /\ messagebox' = IF s.raised = ""
                     THEN Box("showinfo", "Cleaned")
                     ELSE Box("showerror", "Funds")

\* OzZooApp.clean_enclosure_dialog
CleanEnclosure ==
    /\ \E idx \in EnclosureNumbers :
           cleaned(add_expense(Zoo, clean_cost(Zoo, idx), "Cleaning enclosure"), idx)
    /\ UNCHANGED <<running, auto_ticks, msg_queue>>

\* upgrade_enclosure_dialog: cost = 200 * enc.upgrade_level, in cents
upgrade_cost(s, idx) == 20000 * s.enclosures[idx].upgrade_level

\* a fault: the enclosure is upgraded whether or not the expense went through
upgrade_unpaid(s, idx) == upgrade(s, idx)

\* upgrade_enclosure_dialog, the try block after add_expense: enc.upgrade()
upgrade_paid(s, idx) == IF s.raised = "" THEN upgrade(s, idx) ELSE s

\* upgrade_enclosure_dialog after add_expense(cost, "Enclosure upgrade")
upgraded(s, idx) ==
    /\ Call(upgrade_paid(s, idx))
    /\ messagebox' = IF s.raised = ""
                     THEN Box("showinfo", "Upgraded")
                     ELSE Box("showerror", "Funds")

\* OzZooApp.upgrade_enclosure_dialog
UpgradeEnclosure ==
    /\ \E idx \in EnclosureNumbers :
           upgraded(add_expense(Zoo, upgrade_cost(Zoo, idx), "Enclosure upgrade"), idx)
    /\ UNCHANGED <<running, auto_ticks, msg_queue>>

\* OzZooApp.get_selected_animal: the animals the player can end up with, the
\* only animal of the enclosure or enc.animals[choice - 1]
selectable(enc) ==
    IF Len(enc.animals) = 1 THEN {enc.animals[1]}
    ELSE {enc.animals[choice] : choice \in Choices \cap DOMAIN enc.animals}

\* feed_selected: consume one unit, then a.feed(Food(ft, nutrition_value=25))
hand_fed(s, a, ft) ==
    feed([s EXCEPT !.food_inventory[ft] = @ - 1], a, Food(ft, 250, 0))

\* OzZooApp.feed_selected
FeedSelected ==
    /\ \E sel \in EnclosureNumbers :
           IF enclosures[sel].animals = <<>>
           THEN /\ messagebox' = Box("showwarning", "No Animals")
                /\ Call(Zoo)
           ELSE \E a \in selectable(enclosures[sel]) :
                    IF \A k \in DOMAIN food_inventory : food_inventory[k] <= 0
                    THEN /\ messagebox' = Box("showwarning", "No Food")
                         /\ Call(Zoo)
                    ELSE \E ft \in FoodTypes :
                             IF ft \notin DOMAIN food_inventory \/ food_inventory[ft] <= 0
                             THEN /\ messagebox' = Box("showwarning", "Invalid")
                                  /\ Call(Zoo)
                             ELSE /\ Call(hand_fed(Zoo, a, ft))
                                  /\ messagebox' = Box("showinfo", "Fed")
    /\ UNCHANGED <<running, auto_ticks, msg_queue>>

\* next((k for k, v in medicine_inventory.items() if v > 0), None); the
\* inventory holds the one kind basic_med
first_medicine == IF medicine_inventory["basic_med"] > 0 THEN "basic_med" ELSE ""

\* give_medicine_selected: consume one unit, then a.health += 15
medicine(s, med_name, a) ==
    add_health([s EXCEPT !.medicine_inventory[med_name] = @ - 1], a, 150)

\* OzZooApp.give_medicine_selected
GiveMedicine ==
    /\ \E sel \in EnclosureNumbers :
           IF enclosures[sel].animals = <<>>
           THEN /\ messagebox' = Box("showwarning", "No Animals")
                /\ Call(Zoo)
           ELSE \E a \in selectable(enclosures[sel]) :
                    IF first_medicine = ""
                    THEN /\ messagebox' = Box("showwarning", "No Medicine")
                         /\ Call(Zoo)
                    ELSE /\ Call(medicine(Zoo, first_medicine, a))
                         /\ messagebox' = Box("showinfo", "Medicine")
    /\ UNCHANGED <<running, auto_ticks, msg_queue>>

\* attempt_breed_pair after a1.attempt_breed_with(a2)
bred(s) ==
    /\ Call(s)
    /\ messagebox' = IF s.raised = "IncompatibleSpeciesError"
                     THEN Box("showerror", "Incompatible")
                     ELSE Box("showinfo", "Breeding")

\* OzZooApp.attempt_breed_pair
AttemptBreedPair ==
    /\ \E sel \in EnclosureNumbers :
           IF Len(enclosures[sel].animals) < 2
           THEN /\ messagebox' = Box("showwarning", "Need pair")
                /\ Call(Zoo)
           ELSE \E pair \in Couples \cap ((DOMAIN enclosures[sel].animals)
                                              \X (DOMAIN enclosures[sel].animals)) :
                    IF pair[1] = pair[2]
                    THEN /\ messagebox' = Box("showwarning", "Invalid")
                         /\ Call(Zoo)
                    ELSE \E draw \in PairDraws(Zoo, enclosures[sel].animals[pair[1]],
                                                 enclosures[sel].animals[pair[2]]) :
                             bred(attempt_breed_with(Zoo,
                                                     enclosures[sel].animals[pair[1]],
                                                     enclosures[sel].animals[pair[2]],
                                                     draw))
    /\ UNCHANGED <<running, auto_ticks, msg_queue>>

-----------------------------------------------------------------------------
(* The program.                                                            *)

\* the host as OzZooApp.__init__ leaves it
AppInit ==
    /\ running = FALSE
    /\ auto_ticks = 0
    /\ msg_queue = <<>>
    /\ messagebox = Box("", "")
    /\ steps = 0

\* the zoo is s
Is(s) ==
    /\ animals = s.animals
    /\ _id_counter = s._id_counter
    /\ enclosures = s.enclosures
    /\ food_inventory = s.food_inventory
    /\ medicine_inventory = s.medicine_inventory
    /\ balance = s.balance
    /\ income_history = s.income_history
    /\ expense_history = s.expense_history
    /\ subscriptions = s.subscriptions
    /\ day = s.day
    /\ event_log = s.event_log
    /\ alerts = s.alerts

\* main(): Zoo() and OzZooApp(zoo)
Init ==
    /\ \E sexes \in StarterSexes : Is(create_default_setup(sexes))
    /\ AppInit

Next ==
    \/ AdvanceDay
    \/ StartAuto
    \/ PauseAuto
    \/ AutoTick
    \/ ProcessQueue
    \/ BuyFood
    \/ BuyAnimal
    \/ CleanEnclosure
    \/ UpgradeEnclosure
    \/ FeedSelected
    \/ GiveMedicine
    \/ AttemptBreedPair

Spec == Init /\ [][Next]_vars

-----------------------------------------------------------------------------
(* A zoo late in a game.  Births, deaths and a full aviary are weeks of     *)
(* play away from main(), so a second specification starts from the zoo     *)
(* that the calls below leave: the Koalas are bred on day 1, food and a     *)
(* third Koala are bought, the days up to the eve of Kiki's term are played *)
(* without events, and five eagles are bought on the last evening.          *)

\* the draws of an uneventful day with five visitors
QuietDay == [sex |-> "F"] @@ Draw(5, 1000, 500, 3, 50, 50, 0, 1, 0)

\* process_queue after advance_day: the summary line joins the event log
queued(s) ==
    [s EXCEPT !.event_log =
        Append(s.event_log,
               [s.event_log[Len(s.event_log)] EXCEPT !.prefix = "Day advanced: "])]

\* n "Advance Day" clicks, the queue drained after each
RECURSIVE days(_, _)
days(s, n) ==
    IF n = 0 \/ s.raised # "" THEN s
    ELSE days(queued(daily_operations(s, QuietDay)), n - 1)

\* give_medicine_selected for animal a, n times
RECURSIVE doses(_, _, _)
doses(s, a, n) ==
    IF n = 0 THEN s ELSE doses(medicine(s, "basic_med", a), a, n - 1)

\* day 1: Kiki and Koko are bred, the purchases, and all but one unit of
\* medicine given to the healthy Kiki
day_one(s) ==
    doses(buy_animal(
              buy_food(buy_food(attempt_breed_with(s, 1, 2, 0), "eucalyptus", 100, 300),
                       "meaty_food", 6, 400),
              "Koala", 1, 40000, "F"),
          1, 5 - 1)

\* n more eagles for the aviary
RECURSIVE eagles(_, _)
eagles(s, n) ==
    IF n = 0 \/ s.raised # "" THEN s
    ELSE eagles(buy_animal(s, "Wedge-tailed Eagle", 3, 50000, "F"), n - 1)

\* the eve of Kiki's term: Koala.get_gestation_period_days() - 1 days played
late_zoo(sexes) ==
    eagles(days(day_one(create_default_setup(sexes)), 34 - 1), 5)

\* a famine: on day 1 Kiki and Koko are bred, two koalas fill the forest and
\* 44 units of eucalyptus are bought; the eucalyptus lasts 16 days
famine_day_one(s) ==
    buy_animal(
        buy_animal(buy_food(attempt_breed_with(s, 1, 2, 0), "eucalyptus", 44, 300),
                   "Koala", 1, 40000, "F"),
        "Koala", 1, 40000, "F")

\* the eve of Kiki's term in the famine
famine_zoo(sexes) == days(famine_day_one(create_default_setup(sexes)), 34 - 1)

LateZoos ==
    {late_zoo(sexes) : sexes \in StarterSexes}
        \cup {famine_zoo(<<"F", "M", "M", "F">>)}

InitLate ==
    /\ \E zoo \in LateZoos : Is(zoo)
    /\ AppInit

SpecLate == InitLate /\ [][Next]_vars

-----------------------------------------------------------------------------
(* Squalor: a zoo that is never cleaned.  Five heatwaves in the first week *)
(* leave every enclosure below cleanliness 30; the eagle Aerie eats the    *)
(* starting meat, starves, is fed one bought unit by hand and is left with *)
(* health 0.2 in the dirty aviary, one unit of meat in stock.              *)

\* the draws of a day with a heatwave, and of a day without event on which
\* daily_update draws 15.0 for the hunger
HeatDay == [sex |-> "F"] @@ Draw(5, 1000, 500, 1, 50, 3, 0, 1, 0)
HungryDay == [sex |-> "F"] @@ Draw(5, 1000, 500, 3, 150, 50, 0, 1, 0)

\* n "Advance Day" clicks with the draws d, the queue drained after each
RECURSIVE played(_, _, _)
played(s, d, n) ==
    IF n = 0 \/ s.raised # "" THEN s
    ELSE played(queued(daily_operations(s, d)), d, n - 1)

\* days 1 to 10: the heatwaves, then the last of the starting meat
heat(s) == played(played(s, HeatDay, 5), QuietDay, 5)

\* days 11 to 26: no meat in stock
hunger_weeks(s) == played(played(s, HungryDay, 1), QuietDay, 15)

\* one unit of meat is bought and fed to Aerie by hand; day 27; one more
\* unit is bought
relief(s) ==
    buy_food(played(hand_fed(buy_food(s, "meaty_food", 1, 400), 4, "meaty_food"),
                    HungryDay, 1),
             "meaty_food", 1, 400)

squalid_zoo == relief(hunger_weeks(heat(create_default_setup(<<"F", "M", "M", "F">>))))

InitSqualor ==
    /\ Is(squalid_zoo)
    /\ AppInit

SpecSqualor == InitSqualor /\ [][Next]_vars

-----------------------------------------------------------------------------
(* The properties.                                                         *)

\* the ids of all residents of all enclosures
Residents ==
    UNION {Range(enclosures[e].animals) : e \in DOMAIN enclosures}

\* the log holds a line with this text
Logged(text) == \E i \in DOMAIN event_log : event_log[i].text = text

\* the number of entries of a ledger history with this reason
Entries(history, reason) ==
    Cardinality({i \in DOMAIN history : history[i][2] = reason})

\* C1: in every reachable state the health, hunger and happiness of every
\* animal, as stored and as read through the accessors, lie in [0, 100]
\* (0..1000 tenths).
C1_StatsInRange ==
    \A id \in DOMAIN animals :
        /\ animals[id]._health \in 0..1000
        /\ animals[id]._hunger \in 0..1000
        /\ animals[id]._happiness \in 0..1000
        /\ health(animals[id]) = animals[id]._health
        /\ hunger(animals[id]) = animals[id]._hunger
        /\ happiness(animals[id]) = animals[id]._happiness

\* after a tick with a birth, in which the starved eagle Aerie (id 4) reached
\* hunger 100 and health 0, the player has fed an animal that now has hunger 0
\* and happiness 100: the setters clamped at both ends
C1_Witness ==
    /\ Logged("New birth!")
    /\ animals[4]._hunger = 1000 /\ animals[4]._health = 0
    /\ messagebox = Box("showinfo", "Fed")
    /\ \E id \in Residents :
           animals[id]._hunger = 0 /\ animals[id]._happiness = 1000

\* C2: an animal is alive iff its health is above 0, and between the calls to
\* advance_day no enclosure holds an animal whose health is 0.
C2_NoDeadResident ==
    /\ \A id \in DOMAIN animals : is_alive(animals[id]) <=> animals[id]._health > 0
    /\ \A id \in Residents : animals[id]._health > 0

\* the eagle Aerie (id 4) starved during a tick: it was reported dead, its
\* removal was logged and it is in no enclosure
C2_Witness ==
    /\ <<4, "This animal has died.">> \in Range(alerts)
    /\ \E i \in DOMAIN event_log :
           event_log[i].text = "died due to poor health." /\ event_log[i].arg = 4
    /\ animals[4]._health = 0
    /\ 4 \notin Residents

\* C3: advance_day never fails with InsufficientFundsError; stated on the
\* host, no tick ends in the error box of advance_day.
C3_AdvanceDayNeverFails ==
    messagebox # Box("showerror", "Error during day processing")

\* C4: a tick is all or nothing, the day counter being its last effect: the
\* revenue of the visitors has been credited exactly once for each day that
\* the counter has passed.
C4_RevenueOnlyForCountedDays ==
    Entries(income_history, "Daily visitors & sales") = day - 1

\* C5: in every reachable state the balance is at least 0.
C5_BalanceNonNegative == balance >= 0

\* the balance was spent to the last cent and a later expense was refused
C5_Witness ==
    /\ balance = 0
    /\ expense_history # <<>>
    /\ messagebox = Box("showerror", "Funds")

\* the amounts tried on the ledger of a state: none, the price of an escape's
\* repair, one cent less than the balance, the balance, one cent more
ExpenseAmounts == {0, 5000, balance, balance + 1} \cup ({balance - 1} \cap Nat)

\* add_expense with an amount above the balance
refused(s, t) ==
    /\ t.raised = "InsufficientFundsError"
    /\ t.balance = s.balance
    /\ t.expense_history = s.expense_history

\* add_expense with an amount up to the balance
debited(s, t, amount, reason) ==
    /\ t.raised = ""
    /\ t.balance = s.balance - amount
    /\ t.expense_history = Append(s.expense_history, <<amount, reason>>)

\* a FinanceManager with this balance
Ledger(initial_balance) ==
    [empty_zoo EXCEPT !.balance = initial_balance]

\* C6: add_expense(amount, reason) with amount > balance raises
\* InsufficientFundsError and leaves balance and expense history as they
\* were; otherwise, amount = balance included, the balance falls by amount
\* and one entry <<amount, reason>> joins the history.  From balance 100,
\* 150 is refused and 50 then leaves 50.
C6_AddExpense ==
    /\ \A amount \in ExpenseAmounts :
           IF amount > balance
           THEN refused(Zoo, add_expense(Zoo, amount, "reason"))
           ELSE debited(Zoo, add_expense(Zoo, amount, "reason"), amount, "reason")
    /\ refused(Ledger(10000), add_expense(Ledger(10000), 15000, "reason"))
    /\ debited(Ledger(10000),
               add_expense([add_expense(Ledger(10000), 15000, "reason")
                                EXCEPT !.raised = ""],
                           5000, "reason"),
               5000, "reason")
    /\ add_expense([add_expense(Ledger(10000), 15000, "reason") EXCEPT !.raised = ""],
                   5000, "reason").balance = 5000

\* the player spent the whole balance in one purchase (amount = balance), and
\* the next purchase was refused
C6_Witness ==
    /\ balance = 0
    /\ Len(expense_history) = 1
    /\ expense_history[1][1] = 200000
    /\ messagebox = Box("showerror", "Funds")

\* C7: in every reachable state every enclosure holds at most `capacity`
\* animals.
C7_WithinCapacity ==
    \A e \in DOMAIN enclosures :
        Len(enclosures[e].animals) <= enclosures[e].capacity

\* Kiki gave birth in the forest enclosure when it was full: the newborn was
\* not placed
C7_Witness ==
    /\ Len(enclosures[1].animals) = enclosures[1].capacity
    /\ Logged("A newborn couldn't be placed and sadly didn't survive.")

\* the species a caller may ask the factory for; it knows no Wombat
Offers == {"Koala", "Kangaroo", "Wedge-tailed Eagle", "Wombat"}

\* enclosure.add_animal(animal) with the animal that the factory just made
offer(s, e) == add_animal(s, e, s.ret)

\* a zoo whose one enclosure is a grassland habitat of capacity 1
Paddock ==
    [empty_zoo EXCEPT !.enclosures = <<Enclosure("Paddock", 1, "grassland")>>]

\* add_animal refused for want of room: t is s with the exception raised
full(s, t, e) ==
    /\ t.raised = "HabitatCapacityExceededError"
    /\ t.enclosures[e].animals = s.enclosures[e].animals

\* the second add_animal into the Paddock, after the first put a Kangaroo in
second_add(s) ==
    /\ s.raised = ""
    /\ Len(s.enclosures[1].animals) = 1
    /\ full(s, offer(create(s, "Wombat", "", 0, "F"), 1), 1)

\* C8: add_animal on an enclosure that holds `capacity` animals raises
\* HabitatCapacityExceededError and leaves the list of animals as it was,
\* whatever the animal and the habitat: a mammal offered to a full aviary is
\* refused for the capacity, not for the species.  After one add_animal into
\* a grassland enclosure of capacity 1 the second is refused and one animal
\* is in it.
C8_FullEnclosureRefuses ==
    /\ \A e \in DOMAIN enclosures :
           Len(enclosures[e].animals) = enclosures[e].capacity
               => \A species \in Offers :
                      full(Zoo, offer(create(Zoo, species, "", 0, "F"), e), e)
    /\ second_add(offer(create(Paddock, "Kangaroo", "", 0, "F"), 1))

\* the aviary is full and a purchase for it (of a Koala, among others) was
\* refused for the capacity
C8_Witness ==
    /\ Len(enclosures[3].animals) = enclosures[3].capacity
    /\ enclosures[3].habitat_type = "aviary"
    /\ messagebox = Box("showerror", "Capacity")

\* add_animal refused for the species: t is s with the exception raised
unfit(s, t, e) ==
    /\ t.raised = "IncompatibleSpeciesError"
    /\ t.enclosures[e].animals = s.enclosures[e].animals

\* the factory built a mammal
mammal_made(s) == s.animals[s.ret].class \in {"Mammal", "Koala", "Kangaroo"}

\* C9: in every reachable state no aviary holds a Mammal (generic, Koala or
\* Kangaroo); add_animal of one into an aviary with room raises
\* IncompatibleSpeciesError and leaves the list as it was; a species that the
\* factory does not know is built as a generic Mammal, which the aviary
\* refuses; births bring no mammal into an aviary.
C9_NoMammalInAviary ==
    /\ \A e \in DOMAIN enclosures :
           enclosures[e].habitat_type = "aviary"
               => /\ \A id \in Range(enclosures[e].animals) :
                         animals[id].class \notin {"Mammal", "Koala", "Kangaroo"}
                  /\ Len(enclosures[e].animals) < enclosures[e].capacity
                         => \A species \in Offers \ {"Wedge-tailed Eagle"} :
                                /\ mammal_made(create(Zoo, species, "", 0, "F"))
                                /\ unfit(Zoo, offer(create(Zoo, species, "", 0, "F"), e), e)
    /\ create(Zoo, "Wombat", "", 0, "F").animals[_id_counter].class = "Mammal"

\* after a tick with a birth, a mammal was offered to the aviary, which had
\* room, and was refused
C9_Witness ==
    /\ Logged("New birth!")
    /\ Len(enclosures[3].animals) < enclosures[3].capacity
    /\ messagebox = Box("showerror", "Incompatibility")

\* buy_animal raised: nothing of the zoo that the player sees has changed
failed(t) ==
    /\ t.raised \in {"InsufficientFundsError", "HabitatCapacityExceededError",
                     "IncompatibleSpeciesError"}
    /\ t.balance = balance
    /\ t.expense_history = expense_history
    /\ \A e \in DOMAIN enclosures : t.enclosures[e].animals = enclosures[e].animals
    /\ t.subscriptions = subscriptions
    /\ t.event_log = event_log

\* buy_animal returned: the new animal, whose id is the counter's value
\* before the call, is the one new resident, and it is paid for and subscribed
succeeded(t, enc, price) ==
    /\ t.enclosures[enc].animals = Append(enclosures[enc].animals, _id_counter)
    /\ \A e \in DOMAIN enclosures \ {enc} :
           t.enclosures[e].animals = enclosures[e].animals
    /\ _id_counter \in Range(t.subscriptions)
    /\ _id_counter \notin Range(subscriptions)
    /\ t.animals[_id_counter]._observers # <<>>
    /\ t.balance = balance - price

\* the outcome t of buy_animal(species, enclosure enc, price)
atomic(t, enc, price) ==
    /\ (t.raised = "InsufficientFundsError") <=> (price > balance)
    /\ IF t.raised # "" THEN failed(t) ELSE succeeded(t, enc, price)

\* C10: buy_animal is atomic.  When it raises InsufficientFundsError (price
\* above the balance), HabitatCapacityExceededError or
\* IncompatibleSpeciesError, then balance, expense history, the animals of
\* every enclosure, the observer's subscriptions and the event log are as
\* before; when it returns, the enclosure has exactly one more animal, that
\* animal is subscribed, and the balance is lower by exactly the price.
C10_BuyAnimalAtomic ==
    \A species \in Offers, enc \in DOMAIN enclosures, sex \in Sexes :
        atomic(buy_animal(Zoo, species, enc, animal_price(species), sex),
               enc, animal_price(species))

\* two Koalas were bought for the forest enclosure, which filled it, and a
\* third purchase was refused: the two prices and no more have been paid
C10_Witness ==
    /\ messagebox = Box("showerror", "Capacity")
    /\ Len(enclosures[1].animals) = enclosures[1].capacity
    /\ balance = 200000 - 2 * 40000
    /\ Len(expense_history) = 2

\* the kinds and quantities of food a player may ask for (1 to 500 units);
\* "hay" is a kind that the price table does not list
FoodKinds ==
    {"eucalyptus", "herbivore_food", "seeds", "meaty_food", "general_food", "hay"}

Quantities == {1, 10, 500}

\* a purchase at `cost` was refused: t is the zoo as it was
unpaid(t) ==
    /\ t.raised = "InsufficientFundsError"
    /\ t.balance = balance
    /\ t.expense_history = expense_history
    /\ t.food_inventory = food_inventory
    /\ t.enclosures = enclosures
    /\ t.animals = animals

\* buy_food(kind, quantity, price) left the zoo t
food_outcome(t, kind, quantity, cost) ==
    IF cost > balance THEN unpaid(t)
    ELSE /\ t.raised = ""
         /\ t.balance = balance - cost
         /\ t.food_inventory = put(food_inventory, kind, get(food_inventory, kind) + quantity)

\* the cleaning of enclosure idx left the zoo t
clean_outcome(t, idx, cost) ==
    IF cost > balance THEN unpaid(t)
    ELSE /\ t.raised = ""
         /\ t.balance = balance - cost
         /\ t.enclosures[idx].cleanliness = 1000

\* the upgrade of enclosure idx left the zoo t
upgrade_outcome(t, idx, cost) ==
    IF cost > balance THEN unpaid(t)
    ELSE /\ t.raised = ""
         /\ t.balance = balance - cost
         /\ t.enclosures[idx].upgrade_level = enclosures[idx].upgrade_level + 1

\* C11: buy_food (cost = quantity x unit price), the cleaning (cost =
\* 20 x (1 + animals/2)) and the upgrade (cost = 200 x upgrade level) of an
\* enclosure raise InsufficientFundsError when the cost is above the balance
\* and then leave balance, food inventory, cleanliness, upgrade level,
\* capacity and the animals' happiness as they were; otherwise the balance
\* falls by exactly the cost and the effect is applied (inventory + quantity,
\* cleanliness 100, level + 1).
C11_PurchasesHardFail ==
    /\ \A kind \in FoodKinds, quantity \in Quantities :
           food_outcome(buy_food(Zoo, kind, quantity, food_price(kind)),
                        kind, quantity, quantity * food_price(kind))
    /\ \A idx \in DOMAIN enclosures :
           /\ clean_cost(Zoo, idx) = 20 * (100 + (100 * Len(enclosures[idx].animals)) \div 2)
           /\ clean_outcome(clean_paid(add_expense(Zoo, clean_cost(Zoo, idx),
                                                   "Cleaning enclosure"), idx),
                            idx, clean_cost(Zoo, idx))
           /\ upgrade_outcome(upgrade_paid(add_expense(Zoo, upgrade_cost(Zoo, idx),
                                                       "Enclosure upgrade"), idx),
                              idx, upgrade_cost(Zoo, idx))

\* after a tick the player spent all but the day's revenue on food, and an
\* upgrade (200 at level 1) was refused: the enclosures, dirtied by the tick,
\* are at level 1
C11_Witness ==
    /\ messagebox = Box("showerror", "Funds")
    /\ day = 2
    /\ balance < 20000
    /\ get(food_inventory, "meaty_food") >= 500
    /\ \A e \in DOMAIN enclosures :
           enclosures[e].upgrade_level = 1 /\ enclosures[e].cleanliness < 1000

\* C12: an animal that died and was removed from its enclosure during a tick
\* is removed from the observation lists too: every animal in the observer's
\* subscriptions is in some enclosure, and an animal in no enclosure has no
\* observer attached.
C12_SubscribedAreResident ==
    /\ \A id \in Range(subscriptions) : id \in Residents
    /\ \A id \in DOMAIN animals \ Residents : animals[id]._observers = <<>>

HealthValues == {-50, 0, 1, 299, 300, 1000}

\* the notifications sent between state s and state t
sent(s, t) == SubSeq(t.alerts, Len(s.alerts) + 1, Len(t.alerts))

critical_due(s, id, value) ==
    IF clamp(value) < 300 /\ s.animals[id]._health >= 300
    THEN << <<id, "Health critical">> >> ELSE <<>>

died_due(id, value) ==
    IF clamp(value) = 0 THEN << <<id, "This animal has died.">> >> ELSE <<>>

Alerted(id, message) == \E i \in DOMAIN alerts : alerts[i] = <<id, message>>

\* C13: assigning a health to a subscribed animal sends "critical" exactly
\* when the stored health goes from >= 30 to < 30 and "died" exactly when the
\* stored health becomes 0, and no subscribed animal is below 30 (or at 0)
\* without the notification having been sent.
C13_HealthAlerts ==
    /\ \A id \in Residents : \A value \in HealthValues :
          sent(Zoo, set_health(Zoo, id, value))
              = critical_due(Zoo, id, value) \o died_due(id, value)
    /\ \A id \in DOMAIN animals :
          animals[id]._observers # <<>> =>
              /\ animals[id]._health < 300 => Alerted(id, "Health critical")
              /\ animals[id]._health = 0 => Alerted(id, "This animal has died.")

\* a subscribed animal that stayed below 30 over several days and then
\* died: one critical alert, one death alert
C13_Witness ==
    \E id \in DOMAIN animals :
        /\ animals[id]._observers # <<>>
        /\ animals[id]._health = 0
        /\ Cardinality({i \in DOMAIN alerts : alerts[i] = <<id, "Health critical">>}) = 1
        /\ Alerted(id, "This animal has died.")
        /\ \E other \in Residents : animals[other]._health >= 300

\* C14: every food and medicine quantity is a non-negative integer.
C14_InventoriesNonNegative ==
    /\ \A k \in DOMAIN food_inventory : food_inventory[k] \in Nat
    /\ \A k \in DOMAIN medicine_inventory : medicine_inventory[k] \in Nat

\* the last unit of medicine was given and the next request was answered
\* "No Medicine", while a kind of food a resident accepts is out of stock
C14_Witness ==
    /\ medicine_inventory["basic_med"] = 0
    /\ messagebox = Box("showwarning", "No Medicine")
    /\ \E id \in Residents :
           first_in_stock(Zoo, accepted_food_types(animals[id]), 1) = ""

\* the gestation periods the specification gives
Gestation(a) ==
    CASE a.species = "Koala" -> 34
      [] a.species = "Kangaroo" -> 30
      [] a.species = "Wedge-tailed Eagle" -> 20
      [] OTHER -> 60

HungerDraws == {50, 150}

\* the update of `id` that led from s to t returned one newborn and reset
\* the pregnancy
delivered(s, id, t) ==
    /\ t.ret \notin DOMAIN s.animals
    /\ DOMAIN t.animals = DOMAIN s.animals \cup {t.ret}
    /\ t.animals[t.ret].species = s.animals[id].species
    /\ ~t.animals[id].pregnant
    /\ t.animals[id].days_pregnant = 0

\* the update of `id` that led from s to t returned None
carried(s, id, t) ==
    /\ t.ret = 0
    /\ DOMAIN t.animals = DOMAIN s.animals
    /\ t.animals[id].pregnant = s.animals[id].pregnant
    /\ t.animals[id].days_pregnant =
           IF s.animals[id].pregnant THEN s.animals[id].days_pregnant + 1 ELSE 0

\* random.choice(['M', 'F']) of give_birth is drawn in the update of a
\* pregnant animal only
BabySexes(id) == IF animals[id].pregnant THEN Sexes ELSE {"F"}

\* C15: a daily update returns a birth exactly when it brings a pregnant
\* animal's days_pregnant to its gestation period (koala 34, kangaroo 30,
\* eagle 20, other mammals 60), and then resets the pregnancy; between
\* operations 0 <= days_pregnant < G, and days_pregnant = 0 when not pregnant.
C15_BirthAtTerm ==
    /\ \A id \in DOMAIN animals :
          /\ get_gestation_period_days(animals[id]) = Gestation(animals[id])
          /\ animals[id].days_pregnant \in 0 .. Gestation(animals[id]) - 1
          /\ ~animals[id].pregnant => animals[id].days_pregnant = 0
    /\ \A id \in Residents : \A draw \in HungerDraws : \A sex \in BabySexes(id) :
          IF animals[id].pregnant
             /\ animals[id].days_pregnant + 1 = Gestation(animals[id])
          THEN delivered(Zoo, id, daily_update(Zoo, id, draw, sex))
          ELSE carried(Zoo, id, daily_update(Zoo, id, draw, sex))

\* a koala conceived on day 1 has had its 34th update: she is no longer
\* pregnant and her newborn was logged
C15_Witness ==
    /\ day = 34 + 1
    /\ \E id \in Residents :
           /\ animals[id].species = "Koala" /\ animals[id].sex = "F"
           /\ ~animals[id].pregnant
           /\ id \in {1, 2}
    /\ Logged("New birth!")

\* the newborn of mother `id` joined enclosure e between s and t
born_into(s, e, id, t) ==
    /\ t.raised = ""
    /\ \E baby \in DOMAIN t.animals \ DOMAIN s.animals :
          /\ Range(t.enclosures[e].animals) \ Range(s.enclosures[e].animals) = {baby}
          /\ Range(t.subscriptions) = Range(s.subscriptions) \cup {baby}
          /\ t.animals[baby].species = s.animals[id].species
          /\ t.animals[baby]._health = 800
          /\ t.animals[baby]._happiness = 800
          /\ \E i \in DOMAIN t.event_log :
                 t.event_log[i].text = "New birth!" /\ t.event_log[i].arg = baby

\* the newborn of mother `id` found enclosure e full between s and t
not_placed(s, e, id, t) ==
    /\ t.raised = ""
    /\ Range(t.enclosures[e].animals) \subseteq Range(s.enclosures[e].animals)
    /\ Range(s.enclosures[e].animals) \ Range(t.enclosures[e].animals) \subseteq {id}
    /\ t.subscriptions = s.subscriptions
    /\ Len(t.event_log) > Len(s.event_log)
    /\ \E i \in Len(s.event_log) + 1 .. Len(t.event_log) :
           t.event_log[i].text =
               "A newborn couldn't be placed and sadly didn't survive."

\* the step of resident `id` of enclosure e in the day's loop, from state s
stepped(s, e, id, d) ==
    IF daily_update(auto_feed(s, id), id, d.hunger, d.sex).ret = 0 THEN TRUE
    ELSE IF Len(s.enclosures[e].animals) < s.enclosures[e].capacity
    THEN born_into(s, e, id, animal_step(s, e, id, d))
    ELSE not_placed(s, e, id, animal_step(s, e, id, d))

\* C16: when a resident's daily update yields a birth, the newborn (its
\* mother's species, health 80, happiness 80) joins the mother's enclosure and
\* the observer's subscriptions if the enclosure has room; if the enclosure is
\* full, residents and subscriptions gain nothing, the loss is logged and
\* nothing is raised, even when the mother dies in the same step.
C16_BirthPlacement ==
    \A e \in DOMAIN enclosures : \A id \in Range(enclosures[e].animals) :
        animals[id].pregnant =>
            \A draw \in HungerDraws : \A sex \in Sexes :
                stepped(Zoo, e, id, [hunger |-> draw, sex |-> sex])

\* a day in which a newborn found the forest full and its mother died
C16_Witness ==
    /\ Logged("A newborn couldn't be placed and sadly didn't survive.")
    /\ \E i \in DOMAIN event_log :
           /\ event_log[i].text = "died due to poor health."
           /\ event_log[i].arg = 1
    /\ 1 \notin Residents
    /\ ~animals[1].pregnant
    /\ Residents \cap (DOMAIN animals \ Range(subscriptions)) = {}
    /\ messagebox # Box("showerror", "Error during day processing")

\* the pairs of distinct residents of one enclosure
Pairs ==
    UNION {{pair \in Range(enclosures[e].animals) \X Range(enclosures[e].animals) :
                pair[1] # pair[2]} :
           e \in DOMAIN enclosures}

\* one of the conditions on which attempt_breed_with returns False at once
blocked(a, b) ==
    \/ a.sex = b.sex
    \/ health(a) < 600 \/ health(b) < 600
    \/ happiness(a) < 500 \/ happiness(b) < 500
    \/ a.pregnant \/ b.pregnant

\* nothing but the call's result differs between s and t
untouched(s, t) == [t EXCEPT !.ret = s.ret, !.raised = s.raised] = s

\* the result t of attempt_breed_with on the pair in state s with this draw
attempted(s, id, partner, draw, t) ==
    IF s.animals[id].species # s.animals[partner].species
    THEN t.raised = "IncompatibleSpeciesError" /\ untouched(s, t)
    ELSE IF blocked(s.animals[id], s.animals[partner])
    THEN /\ t.raised = "" /\ t.ret = FALSE /\ untouched(s, t)
         /\ ~chance_drawn(s, id, partner)
    ELSE /\ chance_drawn(s, id, partner)
         /\ t.raised = ""
         /\ t.ret = (draw * 2 < happiness(s.animals[id])
                                    + happiness(s.animals[partner]))

\* C17: attempt_breed_with raises IncompatibleSpeciesError when the species
\* differ, before any other check; otherwise it returns False, changes nothing
\* and takes no random draw (a draw of 0 would succeed) when the two have the
\* same sex, either has health < 60 or happiness < 50, or either is pregnant;
\* when none of these holds one draw decides the result.
C17_BreedPreconditions ==
    \A pair \in Pairs : \A draw \in BreedDraws :
        attempted(Zoo, pair[1], pair[2], draw,
                  attempt_breed_with(Zoo, pair[1], pair[2], draw))

\* the player has tried to breed a pregnant, unhealthy, unhappy female with a
\* male of her species and was told it failed, while her enclosure or
\* another holds two animals of different species
C17_Witness ==
    /\ messagebox = Box("showinfo", "Breeding")
    /\ \E pair \in Pairs :
           /\ animals[pair[1]].species = animals[pair[2]].species
           /\ animals[pair[1]].sex # animals[pair[2]].sex
           /\ animals[pair[1]].pregnant
           /\ health(animals[pair[1]]) < 600
           /\ happiness(animals[pair[1]]) < 500
    /\ steps > MaxSteps

\* both are fit to breed and neither is pregnant
fit(a, b) ==
    /\ health(a) >= 600 /\ health(b) >= 600
    /\ happiness(a) >= 500 /\ happiness(b) >= 500
    /\ ~a.pregnant /\ ~b.pregnant

\* the female of a pair of two sexes
female_of(s, id, partner) == IF s.animals[id].sex = "F" THEN id ELSE partner

\* a successful attempt_breed_with from s to t made only the female pregnant
mated(s, id, partner, t) ==
    (t.raised = "" /\ t.ret = TRUE) =>
        /\ s.animals[id].sex # s.animals[partner].sex
        /\ fit(s.animals[id], s.animals[partner])
        /\ t.animals = [s.animals EXCEPT ![female_of(s, id, partner)].pregnant = TRUE,
                                         ![female_of(s, id, partner)].days_pregnant = 0]
        /\ [t EXCEPT !.animals = s.animals, !.ret = s.ret] = s

NoMalePregnant ==
    /\ \A id \in DOMAIN animals : animals[id].sex = "M" => ~animals[id].pregnant
    /\ \A pair \in Pairs : \A draw \in BreedDraws :
           mated(Zoo, pair[1], pair[2], attempt_breed_with(Zoo, pair[1], pair[2], draw))

\* an animal that becomes pregnant in a step had a fit partner of the other
\* sex and of its species in its enclosure, and starts at days_pregnant 0
Conceived ==
    \A id \in DOMAIN animals :
        (~animals[id].pregnant /\ animals'[id].pregnant) =>
            /\ animals[id].sex = "F"
            /\ animals'[id].days_pregnant = 0
            /\ \E pair \in Pairs :
                   /\ pair[1] = id
                   /\ animals[pair[2]].sex = "M"
                   /\ animals[pair[2]].species = animals[id].species
                   /\ fit(animals[id], animals[pair[2]])
                   /\ animals'[pair[2]] = animals[pair[2]]

\* C18: a successful attempt_breed_with makes only the female of the pair
\* pregnant, with days_pregnant 0, and leaves the male unchanged, whichever of
\* the two it is called on; no male is ever pregnant; an animal becomes
\* pregnant only when both partners have health >= 60 and happiness >= 50 and
\* neither is pregnant.
C18_OnlyFemalePregnant == []NoMalePregnant /\ [][Conceived]_vars

\* the player was told that breeding occurred: a female is newly pregnant
\* beside an unchanged male, and another pair of the zoo is not fit to breed
C18_Witness ==
    /\ messagebox = Box("showinfo", "Breeding")
    /\ \E pair \in Pairs :
           /\ animals[pair[1]].sex = "F" /\ animals[pair[2]].sex = "M"
           /\ animals[pair[1]].species = animals[pair[2]].species
           /\ animals[pair[1]].pregnant /\ animals[pair[1]].days_pregnant = 0
           /\ ~animals[pair[2]].pregnant
    /\ \E pair \in Pairs :
           /\ animals[pair[1]].sex # animals[pair[2]].sex
           /\ animals[pair[1]].species = animals[pair[2]].species
           /\ ~fit(animals[pair[1]], animals[pair[2]])

\* the scenario's animal: a.hunger = 90; a.health = 50
scenario(s, id) == set_health(set_hunger(s, id, 900), id, 500)

\* the hunger of `id` after the increase of its next daily update
raised_hunger(s, id, draw) == clamp(hunger(s.animals[id]) + draw)

\* daily_update took the health penalty of `id` from the raised hunger
penalised(s, id, draw, t) ==
    raised_hunger(s, id, draw) > 800 =>
        health(t.animals[id]) =
            clamp(health(s.animals[id]) - (raised_hunger(s, id, draw) - 800) \div 2)

\* C19 as amended: the health penalty of a daily update is computed from the
\* hunger after this update's own random increase: an animal with hunger 90
\* and health 50 loses (min(100, 90 + u) - 80) x 0.5, between 7.5 and 10, for
\* a draw u in [5, 15].
C19_PenaltyAfterIncrease ==
    \A id \in Residents : \A draw \in HungerDraws :
        /\ health(daily_update(scenario(Zoo, id), id, draw, "F").animals[id])
               = 500 - (Min(1000, 900 + draw) - 800) \div 2
        /\ penalised(Zoo, id, draw, daily_update(Zoo, id, draw, "F"))

\* C19 as stated: an animal with hunger 90 and health 50 loses exactly
\* (90 - 80) x 0.5 = 5 in one daily update.
C19_PenaltyBeforeIncrease ==
    \A id \in Residents : \A draw \in HungerDraws :
        health(daily_update(scenario(Zoo, id), id, draw, "F").animals[id]) = 500 - 50

\* a living resident whose hunger lies between 80 and 100 before its update
C19_Witness ==
    \E id \in Residents :
        /\ hunger(animals[id]) > 800 /\ hunger(animals[id]) < 1000
        /\ health(animals[id]) > 0
        /\ clamp(health(animals[id]) - (hunger(animals[id]) - 800) \div 2)
               # health(daily_update(Zoo, id, 50, "F").animals[id])

\* the animal `id` of state s refused its food: t differs from s in its
\* hunger and happiness, 5 lower each and not below 0, and in nothing else
turned_down(s, id, t) ==
    /\ t.ret = "refused"
    /\ t.animals[id]._hunger = Max(0, hunger(s.animals[id]) - 50)
    /\ t.animals[id]._happiness = Max(0, happiness(s.animals[id]) - 50)
    /\ t.animals[id]._health = s.animals[id]._health
    /\ [t EXCEPT !.animals[id]._hunger = s.animals[id]._hunger,
                 !.animals[id]._happiness = s.animals[id]._happiness,
                 !.ret = s.ret] = s

Refusals ==
    \A id \in Residents :
        \A ft \in FoodKinds \ Range(accepted_food_types(animals[id])) :
            turned_down(Zoo, id, feed(Zoo, id, Food(ft, 250, 0)))

\* a feeding through the host takes one unit of one kind from the inventory
UnitConsumed ==
    (FeedSelected /\ messagebox' = Box("showinfo", "Fed")) =>
        \E ft \in DOMAIN food_inventory :
            /\ food_inventory[ft] > 0
            /\ food_inventory' = [food_inventory EXCEPT ![ft] = @ - 1]

\* C20: food of a kind the animal does not accept lowers its hunger by 5 and
\* its happiness by 5, neither below 0, and leaves its health unchanged, for
\* every animal and every kind it does not accept; fed through the host, the
\* unit is still taken from the inventory.
C20_RefusedFood == []Refusals /\ [][UnitConsumed]_vars

\* the starving eagle was fed eucalyptus: the unit is gone, its hunger is
\* down from 100 to 95 and its health is what it was
C20_Witness ==
    /\ messagebox = Box("showinfo", "Fed")
    /\ food_inventory["eucalyptus"] = 20
    /\ food_inventory["meaty_food"] = 0
    /\ \E id \in Residents :
           /\ animals[id].class = "WedgeTailedEagle"
           /\ animals[id]._hunger = 950
           /\ animals[id]._health = 100

\* the animals of t are those of s, the residents of enclosure e 5 happier
cheered(s, e, t) ==
    /\ DOMAIN t.animals = DOMAIN s.animals
    /\ \A id \in DOMAIN s.animals :
           t.animals[id] =
               IF id \in Range(s.enclosures[e].animals)
               THEN [s.animals[id] EXCEPT
                         !._happiness = Min(1000, happiness(s.animals[id]) + 50)]
               ELSE s.animals[id]

\* enclosure e of t is enclosure e of s, two places larger and a level higher
enlarged(s, e, t) ==
    /\ t.enclosures[e].animals = s.enclosures[e].animals
    /\ t.enclosures[e].capacity = s.enclosures[e].capacity + 2
    /\ t.enclosures[e].upgrade_level = s.enclosures[e].upgrade_level + 1
    /\ t.enclosures[e].cleanliness = s.enclosures[e].cleanliness
    /\ [t EXCEPT !.enclosures[e] = s.enclosures[e], !.animals = s.animals] = s

\* C21: an upgrade keeps the enclosure's residents and their order, makes
\* each of them 5 happier (at most 100), adds 2 to the capacity and 1 to the
\* upgrade level, and changes nothing else.
C21_Upgrade ==
    \A e \in DOMAIN enclosures :
        /\ cheered(Zoo, e, upgrade(Zoo, e))
        /\ enlarged(Zoo, e, upgrade(Zoo, e))

\* an upgraded enclosure whose residents went from 47.5 to 52.5, beside an
\* enclosure at its first level
C21_Witness ==
    /\ messagebox = Box("showinfo", "Upgraded")
    /\ \E e \in DOMAIN enclosures :
           /\ enclosures[e].upgrade_level = 2
           /\ enclosures[e].capacity = 4 + 2
           /\ enclosures[e].cleanliness < 1000
           /\ Len(enclosures[e].animals) = 4
           /\ \A id \in Range(enclosures[e].animals) : animals[id]._happiness = 525
    /\ \E e \in DOMAIN enclosures : enclosures[e].upgrade_level = 1

\* C22: an animal that was reported to the observer as having died is in no
\* enclosure once the tick is over.
C22_ReportedDeadAreRemoved ==
    \A id \in Residents : ~Alerted(id, "This animal has died.")

\* the draws of a tick whose event draw lies in the escape band [0.12, 0.18)
EscapeDraws == {d \in DayDraws : d.r >= 12 /\ d.r < 18}

\* between s and t one resident lost 20 happiness (not below 0), the scare
\* was logged, and the repair of 50 was paid or could not be paid
scared(s, t) ==
    /\ t.raised = ""
    /\ \E id \in UNION {Range(s.enclosures[e].animals) : e \in DOMAIN s.enclosures} :
           t.animals = [s.animals EXCEPT
                            ![id]._happiness = Max(0, happiness(s.animals[id]) - 200)]
    /\ Len(t.event_log) = Len(s.event_log) + 1
    /\ t.event_log[Len(t.event_log)].text = "escape scare"
    /\ t.balance = IF s.balance >= 5000 THEN s.balance - 5000 ELSE s.balance

\* C23: when the event draw lies in the escape band and some enclosure has a
\* resident, the escape scare happens: one resident loses 20 happiness, the
\* scare is logged, and the repair of 50 is attempted without failing the tick.
C23_EscapeScare ==
    Residents # {} =>
        \A d \in EscapeDraws : scared(Zoo, handle_random_events(Zoo, d))

\* the places in the accepted list of `id` whose kind is in stock
stocked_places(s, id) ==
    {i \in DOMAIN accepted_food_types(s.animals[id]) :
         get(s.food_inventory, accepted_food_types(s.animals[id])[i]) > 0}

\* between s and t the animal `id` ate a ration of 20 of kind ft
ate_ration(s, id, ft, t) ==
    /\ t.food_inventory = [s.food_inventory EXCEPT ![ft] = @ - 1]
    /\ t.animals = [s.animals EXCEPT
                        ![id]._hunger = Max(0, hunger(s.animals[id]) - 200),
                        ![id]._happiness = Min(1000, happiness(s.animals[id]) + 60),
                        ![id]._health = Min(1000, health(s.animals[id]) + 20)]

\* between s and t the animal `id` found nothing to eat
went_without(s, id, t) ==
    /\ t.food_inventory = s.food_inventory
    /\ t.animals = [s.animals EXCEPT
                        ![id]._hunger = Min(1000, hunger(s.animals[id]) + 50)]

\* the auto-feed of `id` from s to t
auto_fed(s, id, t) ==
    /\ t.alerts = s.alerts /\ t.enclosures = s.enclosures /\ t.raised = ""
    /\ IF stocked_places(s, id) = {} THEN went_without(s, id, t)
       ELSE \E i \in stocked_places(s, id) :
                /\ \A j \in stocked_places(s, id) : i <= j
                /\ ate_ration(s, id, accepted_food_types(s.animals[id])[i], t)

\* C24: the auto-feed of a resident takes one unit of the first kind of its
\* accepted list that is in stock and feeds it as a ration of 20; without any
\* accepted kind in stock no inventory changes and the hunger rises by 5,
\* before and in addition to the rise of the daily update of the same tick.
C24_AutoFeed ==
    \A id \in Residents :
        /\ auto_fed(Zoo, id, auto_feed(Zoo, id))
        /\ \A draw \in HungerDraws :
               daily_update(auto_feed(Zoo, id), id, draw, "F").animals[id]._hunger
                   = Min(1000, auto_feed(Zoo, id).animals[id]._hunger + draw)

\* after the tick a young koala has gone without eucalyptus, the kangaroo
\* has eaten herbivore food and no general food, and the eagle the last meat
C24_Witness ==
    /\ food_inventory["eucalyptus"] = 0
    /\ food_inventory["herbivore_food"] = 3 - 1
    /\ food_inventory["general_food"] = 25
    /\ food_inventory["meaty_food"] = 0
    /\ \E id \in Residents :
           /\ animals[id].class = "Koala"
           /\ animals[id].age = 1
           /\ animals[id]._hunger \in {50 + 50, 50 + 150}
    /\ \E id \in Residents : animals[id].class = "Kangaroo"

\* the event draw lies in the donation band [0.06, 0.12)
donation_band(d) == d.r >= 6 /\ d.r < 12

\* the events that took place between s and t
heat_struck(s, t) ==
    \E e \in DOMAIN s.enclosures : t.enclosures[e].cleanliness # s.enclosures[e].cleanliness

donated(s, t) ==
    /\ Len(t.income_history) = Len(s.income_history) + 1
    /\ t.income_history[Len(t.income_history)][2] = "Donation"
    /\ t.income_history[Len(t.income_history)][1] \in 10000 .. 50000
    /\ t.balance = s.balance + t.income_history[Len(t.income_history)][1]

escape_scared(s, t) ==
    /\ Len(t.event_log) > Len(s.event_log)
    /\ t.event_log[Len(t.event_log)].text = "escape scare"

\* the events of one draw, from s to t
resolved(s, d, t) ==
    /\ ~(heat_struck(s, t) /\ donated(s, t))
    /\ ~(heat_struck(s, t) /\ escape_scared(s, t))
    /\ ~(donated(s, t) /\ escape_scared(s, t))
    /\ donated(s, t) <=> (donation_band(d) /\ s.balance > 100000)
    /\ t.income_history # s.income_history => donated(s, t)
    /\ (donation_band(d) /\ s.balance <= 100000) => t = s

\* the tick from s to t credited the revenue, and after it the donation if
\* the balance with the revenue exceeded 1000
ticked(s, d, t) ==
    /\ Len(t.income_history) =
           Len(s.income_history) + 1
               + (IF donation_band(d) /\ s.balance + revenue(s, d) > 100000
                  THEN 1 ELSE 0)
    /\ t.income_history[Len(s.income_history) + 1]
           = <<revenue(s, d), "Daily visitors & sales">>

\* C25: the random events of a tick are resolved from one draw, after the
\* revenue is credited and after the enclosures' pass, and at most one of
\* heatwave, donation and escape scare takes place; a donation of 100 to 500
\* is credited exactly when the draw lies in [0.06, 0.12) and the balance at
\* that moment exceeds 1000, and otherwise the draws of that band change
\* nothing.
C25_EventsExclusive ==
    \A d \in DayDraws :
        /\ resolved(Zoo, d, handle_random_events(Zoo, d))
        /\ donation_band(d) => ticked(Zoo, d, daily_operations(Zoo, [sex |-> "F"] @@ d))

\* the second day of a zoo that received a donation on its first and had
\* neither heatwave nor escape scare
C25_Witness ==
    /\ day = 2
    /\ Entries(income_history, "Donation") = 1
    /\ Entries(income_history, "Daily visitors & sales") = 1
    /\ income_history[1][2] = "Daily visitors & sales"
    /\ ~Logged("Heatwave")
    /\ ~Logged("escape scare")

\* the residents that accept the kind ft
Eaters(ft) == {id \in Residents : ft \in Range(accepted_food_types(animals[id]))}

\* a tick: every resident of the day before is a day older, also those that
\* come after a resident that died; a newborn has age 0 and hunger 0; of no
\* kind more units are gone than there were residents to eat it
SnapshotTick ==
    day' = day + 1 =>
        /\ \A id \in Residents : animals'[id].age = animals[id].age + 1
        /\ \A id \in DOMAIN animals' \ DOMAIN animals :
               animals'[id].age = 0 /\ animals'[id]._hunger = 0
        /\ \A ft \in DOMAIN food_inventory :
               food_inventory[ft] - food_inventory'[ft] <= Cardinality(Eaters(ft))

\* C26: the loop over the residents of a tick runs over a snapshot taken
\* before the births of the tick: a newborn is not fed, not updated and not
\* checked for death in the tick of its birth, and a resident removed for
\* death makes the loop skip no other resident.
C26_SnapshotLoop == [][SnapshotTick]_vars

\* the day after a birth: the newborn is a resident of age 0 and hunger 0,
\* and three units of eucalyptus went to the three older koalas
C26_Witness ==
    /\ day = 34 + 1
    /\ food_inventory["eucalyptus"] = 21 - 3
    /\ \E id \in Residents :
           /\ animals[id].class = "Koala"
           /\ animals[id].age = 0
           /\ animals[id]._hunger = 0
           /\ animals[id]._health = 800
    /\ Cardinality({id \in Residents : animals[id].class = "Koala"}) = 4

\* the animals of t are those of s, the residents of enclosure e having lost
\* 1 happiness and 0.3 health
neglected(s, e, t) ==
    /\ DOMAIN t.animals = DOMAIN s.animals
    /\ \A id \in DOMAIN s.animals :
           IF id \in Range(s.enclosures[e].animals)
           THEN /\ t.animals[id]._happiness = Max(0, happiness(s.animals[id]) - 10)
                /\ t.animals[id]._health = Max(0, health(s.animals[id]) - 3)
                /\ [t.animals[id] EXCEPT !._happiness = s.animals[id]._happiness,
                                         !._health = s.animals[id]._health]
                       = s.animals[id]
           ELSE t.animals[id] = s.animals[id]

\* the maintenance of enclosure e from s to t
maintained(s, e, t) ==
    /\ t.enclosures[e].cleanliness =
           s.enclosures[e].cleanliness - 5 * Len(s.enclosures[e].animals)
    /\ IF t.enclosures[e].cleanliness < 300
       THEN neglected(s, e, t)
       ELSE t.animals = s.animals

Maintenance ==
    \A e \in DOMAIN enclosures : maintained(Zoo, e, daily_maintenance(Zoo, e))

\* a cleanliness rises only by cleaning, to 100
OnlyCleaningCleans ==
    \A e \in DOMAIN enclosures :
        enclosures'[e].cleanliness > enclosures[e].cleanliness =>
            enclosures'[e].cleanliness = 1000

\* C27: the daily maintenance lowers the cleanliness by 0.5 per resident,
\* without a lower bound; when the result is below 30, negative values
\* included, every resident loses 1 happiness and 0.3 health, and otherwise no
\* resident changes; the cleanliness rises only through cleaning, to 100.
C27_Maintenance == []Maintenance /\ [][OnlyCleaningCleans]_vars

\* a koala has spent its first day in an enclosure of negative cleanliness,
\* and lost 1 happiness to the maintenance
C27_Witness ==
    \E e \in DOMAIN enclosures :
        /\ enclosures[e].cleanliness < 0
        /\ \E id \in Range(enclosures[e].animals) :
               /\ animals[id].age = 1
               /\ animals[id]._happiness = 1000 - 10

\* budgets and spending factors of a visitor, in cents
Budgets == {1000, 20000}
Factors == {500, 2500}

\* every visitor spends between nothing and the budget, and the revenue of a
\* day is at least the tickets of its visitors, which are five or more
Spends ==
    /\ \A e \in DOMAIN enclosures : \A budget \in Budgets : \A u \in Factors :
           visit_enclosure(Zoo, e, budget, u) \in 0 .. budget
    /\ \A d \in DayDraws :
           /\ d.visitor_count >= 5
           /\ revenue(Zoo, d) >= daily_ticket_price * d.visitor_count
           /\ takings(Zoo, revenue(Zoo, d)).balance >= balance + 12500

\* the income entries a step adds: first the revenue of the day, of 125 or
\* more, then at most one other entry
RevenueFirst ==
    income_history' # income_history =>
        /\ Len(income_history') \in {Len(income_history) + 1, Len(income_history) + 2}
        /\ SubSeq(income_history', 1, Len(income_history)) = income_history
        /\ income_history'[Len(income_history) + 1][2] = "Daily visitors & sales"
        /\ income_history'[Len(income_history) + 1][1] >= 12500
        /\ Entries(income_history', "Daily visitors & sales")
               = Entries(income_history, "Daily visitors & sales") + 1

\* C28: a tick credits the revenue of the day as one income entry, before
\* the enclosures' pass; every visitor spends between 0 and the budget, also
\* in an enclosure of negative cleanliness, and the revenue is at least the
\* ticket price times the number of visitors, 125 or more.
C28_Revenue == []Spends /\ [][RevenueFirst]_vars

\* a day was played in a zoo with an enclosure of negative cleanliness: the
\* 28th entry of the income history is the revenue of that day
C28_Witness ==
    /\ \E e \in DOMAIN enclosures : enclosures[e].cleanliness < 0
    /\ day = 28 + 1
    /\ Entries(income_history, "Daily visitors & sales") = 28
    /\ income_history[28][1] >= 12500

\* C29: every resident of every enclosure is subscribed to the zoo's health
\* observer, no animal is listed twice, and an animal is in the observer's
\* subscriptions exactly when the observer is among the animal's observers.
C29_ResidentsSubscribed ==
    /\ Residents \subseteq Range(subscriptions)
    /\ Cardinality(Range(subscriptions)) = Len(subscriptions)
    /\ \A id \in DOMAIN animals :
           /\ id \in Range(subscriptions) <=> "observer" \in Range(animals[id]._observers)
           /\ Len(animals[id]._observers) <= 1

\* a starter, an animal bought weeks ago and a newborn of today are
\* residents and subscribed
C29_Witness ==
    /\ \E id \in Residents :
           /\ animals[id].age = 0
           /\ id \in Range(subscriptions)
           /\ Logged("New birth!")
    /\ \E id \in Residents : id > 4 /\ animals[id].age > 0
    /\ \E id \in Residents : id <= 4
    /\ Len(subscriptions) >= 7

\* the sum of the amounts of a history
RECURSIVE Total(_)
Total(history) ==
    IF history = <<>> THEN 0
    ELSE history[1][1] + Total(Tail(history))

\* a history is what it was, with entries appended at most
Extends(old, new) ==
    /\ Len(old) <= Len(new)
    /\ SubSeq(new, 1, Len(old)) = old

\* the balance is the starting balance plus all income less all expenses,
\* and an expense above the balance adds no entry to either history
Conserved ==
    /\ balance = 200000 + Total(income_history) - Total(expense_history)
    /\ \A amount \in {balance + 1, balance + 5000} :
           /\ add_expense(Zoo, amount, "reason").expense_history = expense_history
           /\ add_expense(Zoo, amount, "reason").income_history = income_history

\* no step removes or rewrites an entry of either history
AppendOnly ==
    /\ Extends(income_history, income_history')
    /\ Extends(expense_history, expense_history')

\* C30: the balance always equals the starting balance of 2000 plus the
\* amounts of the income history minus the amounts of the expense history;
\* both histories only grow by appending, and a rejected expense appends
\* nothing.
C30_LedgerConservation == []Conserved /\ [][AppendOnly]_vars

\* after weeks of income and expenses, an expense has just been refused
C30_Witness ==
    /\ Len(income_history) >= 30
    /\ Len(expense_history) >= 5
    /\ messagebox = Box("showerror", "Funds")
    /\ balance # 200000

\* C31: the autoplay keeps a single tick chain: while the autoplay runs, at
\* most one auto_tick callback is pending, so that the automatic ticks come at
\* most once per tick interval; the callbacks pending while it is paused
\* advance no day.
C31_SingleTickChain == running => auto_ticks <= 1

====
